---------------------------- MODULE Spec2Model ----------------------------
(***************************************************************************)
(* A model of the sense-and-dispatch pipeline of rholive:                  *)
(*   - AudioRingBuffer            (src/src/audio_seg.rs)                   *)
(*   - BoundaryFSM                (src/src/audio_seg.rs)                   *)
(*   - SegmentEmitter             (src/src/audio_seg.rs)                   *)
(*   - SimpleTurnFsm and its runner (src/src/simple_turn_fsm.rs,           *)
(*                                 src/src/simple_turn_runner.rs)          *)
(* Each component has its own specification (SpecRing, SpecBoundary,       *)
(* SpecEmitter, SpecTurn) over the variables it owns; the variables of the *)
(* other components stay at their initial values.                          *)
(***************************************************************************)
EXTENDS Integers, Sequences, FiniteSets, TLC

VARIABLES
    \* ---- AudioRingBuffer ----
    buffer,       \* buffer: Vec<i16>, as a function 0..Capacity-1 -> sample
    write_pos,    \* write_pos: AtomicUsize
    global_idx,   \* global_idx: AtomicUsize
    w,            \* the writer inside push_frame: its position and locals
    r,            \* a reader inside get_range: its position and locals
    pushed,       \* history: every sample handed to push_frame, by global index
    last_push,    \* history: (returned index, length) of the last finished push_frame
    \* ---- BoundaryFSM ----
    bstate,          \* state: BoundaryState
    voiced_score,    \* voiced_score: f32, in units of 1/ScoreUnit
    next_seg_id,     \* next_seg_id: u64
    boundary_events, \* the boundary-event channel: every event sent, in order
    asr_proposals,   \* the proposals channel: proposals not yet received
    frame_cg,        \* the ring's global index as the frames are fed
    frames_fed,      \* frames handed to process_frame so far
    sent_in_frame,   \* history: events sent by the last process_frame call
    \* ---- SegmentEmitter ----
    pending_commits, \* pending_commits: BTreeMap<u64, SegmentCommit>
    next_emit_id,    \* next_emit_id: u64
    output_queue,    \* output_queue: VecDeque<SegmentedTurn>
    emit_log,        \* history: the ids try_emit_ready_segments emitted or skipped
    recv_log,        \* history: the ids process_boundary_event received
    \* ---- SimpleTurnFsm and its runner ----
    fsm,             \* the SimpleTurnFsm struct (outbound is drained in every step)
    wire,            \* every WsOutbound the runner handed to ws_out_tx, in order
    wait_elapsed,    \* ms since force_frame_wait_start, tracked while it is read
                     \* (in WaitingForForcedFrame), 0 otherwise
    tick_in,         \* ms until timeout_checker ticks next, tracked like wait_elapsed
    turn_log,        \* history: the audio turns opened from Idle or FrameBatch
    frames_per_turn, \* the FRAMES_PER_TURN the FSM was built with
    ws_open,         \* the receiver of ws_out_tx is alive: send succeeds
    send_failed,     \* history: a ws_out_tx.send has failed
    handled_after_failure, \* history: an event was handled after a failed send
    rec,             \* the TurnRecorder and its VIDEO_TURN_COUNTER
    rec_hist,        \* history: the directory opened for the audio turn on the
                     \* wire, and where the turn's video messages were written
    dup_frame,       \* history: the bytes of the Frame event just handled, when
                     \* its hash was last_frame_hash in Idle, FrameBatch or AudioTurn
    asr_requests,    \* the AsrRequests on the pool's request channel
    last_asr_submit_idx, \* AudioSegmenter::last_asr_submit_idx
    proposal_segs,   \* history: for each queued proposal, the segment its
                     \* request was submitted for
    stale_close,     \* history: a proposal of an earlier segment closed a later one
    asr_timeout_ms,  \* SegmentEmitter::config.asr_timeout_ms
    segmenter,       \* the AudioSegmenter's own fields, and the chunks its ring
                     \* was handed
    outgoing,        \* every Outgoing sent on outgoing_tx, in order
    last_chunk,      \* history: the length of the chunk of the last push_chunk
                     \* call and what the call returned
    last_event,      \* history: the event of the last on_event call made on the
                     \* FSM directly
    runner,          \* run()'s channels (the senders of each still alive) and
                     \* whether run() has returned
    \* ---- main.rs, gemini_client.rs ----
    gemini,          \* the GeminiClient inside send_turn_to_gemini: the turn
                     \* being sent, the frames still to send, the frames sent
    frame_counter,   \* capture_loop's frame_counter (media_in/video.rs)
    tasks,           \* the response-handler task and the turn-processing task of
                     \* async_main, what they share, and the three mutexes
    \* ---- Broker (broker.rs) ----
    broker           \* the Broker struct, the time since last_audio_time, the
                     \* messages its last call returned, and what the messages
                     \* returned so far amount to

ringVars == <<buffer, write_pos, global_idx, w, r, pushed, last_push>>

segVars == <<segmenter, outgoing, last_chunk>>

asrVars == <<asr_requests, last_asr_submit_idx, proposal_segs, stale_close, segVars>>

boundaryVars == <<bstate, voiced_score, next_seg_id, boundary_events,
                  asr_proposals, frame_cg, frames_fed, sent_in_frame, asrVars>>

emitterVars == <<pending_commits, next_emit_id, output_queue, emit_log, recv_log,
                 asr_timeout_ms>>

sinkVars == <<ws_open, send_failed, handled_after_failure>>

recVars == <<rec, rec_hist>>

mainVars == <<gemini, tasks, frame_counter, broker>>

lateVars == <<last_event, runner, mainVars>>

turnVars ==
    <<fsm, wire, wait_elapsed, tick_in, turn_log, frames_per_turn, sinkVars, recVars,
      dup_frame, lateVars>>

vars == <<ringVars, boundaryVars, emitterVars, turnVars>>

\* ------------------------------------------------------------------ helpers

Min(x, y) == IF x < y THEN x ELSE y
Max(x, y) == IF x > y THEN x ELSE y

\* usize::saturating_sub
SatSub(x, y) == IF x > y THEN x - y ELSE 0

\* Option<T>
None == [some |-> FALSE, val |-> <<>>]
Some(v) == [some |-> TRUE, val |-> v]

\* ------------------------------------------------------------------ bounds

\* ring capacity in samples (SegConfig::ring_capacity, scaled down)
Capacity == 2
\* longest frame handed to push_frame (longer than Capacity: a push that wraps
\* over itself)
MaxFrameLen == 3
\* samples pushed in one run
MaxGlobal == 5
\* sample values are 1..MaxSample (the buffer starts zeroed)
MaxSample == 2

Samples == 1..MaxSample
Frames == UNION {[1..n -> Samples] : n \in 0..MaxFrameLen}
\* range bounds offered to get_range, one past MaxGlobal included
RangeIdx == 0..(MaxGlobal + 1)

\* ===================================================================== ring
\* AudioRingBuffer::new
RingInit ==
    /\ buffer = [p \in 0..(Capacity - 1) |-> 0]
    /\ write_pos = 0
    /\ global_idx = 0
    /\ w = [pc |-> "idle", start |-> 0, wp |-> 0, i |-> 0, samples |-> <<>>]
    /\ r = [pc |-> "idle", a |-> 0, b |-> 0, cg |-> 0, wp |-> 0, g |-> 0,
            result |-> None, clean |-> TRUE, len0 |-> 0]
    /\ pushed = <<>>
    /\ last_push = None

\* push_frame, line 101: the cell the i-th sample of a frame goes to
PushPos(wp, i) == (wp + i) % Capacity

\* push_frame, line 110
NewWritePos(wp, n) == (wp + n) % Capacity

\* push_frame, lines 112 and 114: the new global index
NewGlobalIdx(start, n) == start + n

\* push_frame, line 114: the value returned
PushReturn_End(start, n) == start + n
PushReturn(start, n) == start

\* get_range, lines 120-126: the availability check
Unavailable_NoLower(cg, a, b) == b > cg
Unavailable(cg, a, b) == a < SatSub(cg, Capacity) \/ b > cg

\* get_range, line 132: the cell read for global index g
RingPos_Shift(wp, cg, g) == (wp + Capacity - (cg - g) + 1) % Capacity
RingPos(wp, cg, g) == (wp + Capacity - (cg - g)) % Capacity

\* a reader is between its load of global_idx and the end of its copy
Reading == r.pc \in {"load_wp", "copy"}

\* push_frame, lines 96-97: the writer loads both counters (it alone stores them)
W_Start(samples) ==
    /\ w.pc = "idle"
    /\ global_idx + Len(samples) <= MaxGlobal
    /\ w' = [pc |-> "copy", start |-> global_idx, wp |-> write_pos, i |-> 0,
             samples |-> samples]
    /\ r' = [r EXCEPT !.clean = IF Reading THEN FALSE ELSE @]
    /\ UNCHANGED <<buffer, write_pos, global_idx, pushed, last_push>>

\* push_frame, lines 100-107: one write_volatile
W_Copy ==
    /\ w.pc = "copy"
    /\ w.i < Len(w.samples)
    /\ buffer' = [buffer EXCEPT ![PushPos(w.wp, w.i)] = w.samples[w.i + 1]]
    /\ w' = [w EXCEPT !.i = @ + 1]
    /\ r' = [r EXCEPT !.clean = IF Reading THEN FALSE ELSE @]
    /\ UNCHANGED <<write_pos, global_idx, pushed, last_push>>

\* push_frame, lines 110-111
W_StoreWritePos ==
    /\ w.pc = "copy"
    /\ w.i = Len(w.samples)
    /\ write_pos' = NewWritePos(w.wp, Len(w.samples))
    /\ w' = [w EXCEPT !.pc = "store_global"]
    /\ r' = [r EXCEPT !.clean = IF Reading THEN FALSE ELSE @]
    /\ UNCHANGED <<buffer, global_idx, pushed, last_push>>

\* push_frame, lines 112-114
W_StoreGlobal ==
    /\ w.pc = "store_global"
    /\ global_idx' = NewGlobalIdx(w.start, Len(w.samples))
    /\ pushed' = pushed \o w.samples
    /\ last_push' = Some([ret |-> PushReturn(w.start, Len(w.samples)),
                           len |-> Len(w.samples)])
    /\ w' = [w EXCEPT !.pc = "idle", !.samples = <<>>, !.i = 0]
    /\ r' = [r EXCEPT !.clean = IF Reading THEN FALSE ELSE @]
    /\ UNCHANGED <<buffer, write_pos>>

\* get_range, lines 120-126: load global_idx and check the range
R_Start(a, b) ==
    /\ r.pc = "idle"
    /\ LET cg == global_idx IN
         r' = [pc |-> IF Unavailable(cg, a, b) THEN "done" ELSE "load_wp",
               a |-> a, b |-> b, wp |-> 0,
               cg |-> IF Unavailable(cg, a, b) THEN 0 ELSE cg,
               g |-> IF Unavailable(cg, a, b) THEN 0 ELSE a,
               result |-> IF Unavailable(cg, a, b) THEN None ELSE Some(<<>>),
               clean |-> (w.pc = "idle"), len0 |-> Len(pushed)]
    /\ UNCHANGED <<buffer, write_pos, global_idx, w, pushed, last_push>>

\* get_range, line 128
R_LoadWritePos ==
    /\ r.pc = "load_wp"
    /\ r' = [r EXCEPT !.pc = "copy", !.wp = write_pos]
    /\ UNCHANGED <<buffer, write_pos, global_idx, w, pushed, last_push>>

\* get_range, lines 131-137: one read of a cell
R_Copy ==
    /\ r.pc = "copy"
    /\ r.g < r.b
    /\ r' = [r EXCEPT !.g = @ + 1,
                      !.result = Some(Append(r.result.val,
                                             buffer[RingPos(r.wp, r.cg, r.g)]))]
    /\ UNCHANGED <<buffer, write_pos, global_idx, w, pushed, last_push>>

\* get_range, line 139
R_Return ==
    /\ r.pc = "copy"
    /\ r.g >= r.b
    /\ r' = [r EXCEPT !.pc = "done", !.cg = 0, !.wp = 0, !.g = 0]
    /\ UNCHANGED <<buffer, write_pos, global_idx, w, pushed, last_push>>

\* the caller takes the result; the reader may call again
R_Reset ==
    /\ r.pc = "done"
    /\ r' = [pc |-> "idle", a |-> 0, b |-> 0, cg |-> 0, wp |-> 0, g |-> 0,
             result |-> None, clean |-> TRUE, len0 |-> 0]
    /\ UNCHANGED <<buffer, write_pos, global_idx, w, pushed, last_push>>

\* push_frame, lines 100-107: the buffer after the samples from the i-th on are
\* written in order (a later write to the same cell wins)
RECURSIVE CopyFrame(_, _, _, _)
CopyFrame(buf, wp, samples, i) ==
    IF i >= Len(samples) THEN buf
    ELSE CopyFrame([buf EXCEPT ![PushPos(wp, i)] = samples[i + 1]], wp, samples, i + 1)

\* get_range, lines 128-139: the cells read for global indices a..b-1, in order
ReadRange(buf, wp, cg, a, b) ==
    [k \in 1..SatSub(b, a) |-> buf[RingPos(wp, cg, a + k - 1)]]

\* get_range, lines 119-140, with no store in between
GetRangeResult(buf, wp, cg, a, b) ==
    IF Unavailable(cg, a, b) THEN None ELSE Some(ReadRange(buf, wp, cg, a, b))

\* push_frame, lines 95-115, run to completion by the single writer
PushFrame(samples) ==
    /\ w.pc = "idle"
    /\ r.pc = "idle"
    /\ global_idx + Len(samples) <= MaxGlobal
    /\ buffer' = CopyFrame(buffer, write_pos, samples, 0)
    /\ write_pos' = NewWritePos(write_pos, Len(samples))
    /\ global_idx' = NewGlobalIdx(global_idx, Len(samples))
    /\ pushed' = pushed \o samples
    /\ last_push' = Some([ret |-> PushReturn(global_idx, Len(samples)),
                          len |-> Len(samples)])
    /\ UNCHANGED <<w, r>>

\* get_range, lines 119-140, run to completion while no push runs
GetRange(a, b) ==
    /\ r.pc = "idle"
    /\ w.pc = "idle"
    /\ r' = [pc |-> "done", a |-> a, b |-> b, cg |-> 0, wp |-> 0, g |-> 0,
             result |-> GetRangeResult(buffer, write_pos, global_idx, a, b),
             clean |-> TRUE, len0 |-> Len(pushed)]
    /\ UNCHANGED <<buffer, write_pos, global_idx, w, pushed, last_push>>

\* the samples pushed at global indices a..b-1
PushedAt(a, b) == [k \in 1..SatSub(b, a) |-> pushed[a + k]]


\* ============================================================= boundary FSM
\* ---- SegConfig: close_silence_ms and max_turn_ms scaled down to a few frames
CloseSilenceMs == 60
MaxTurnMs == 60
\* SegConfig::default().min_clause_tokens
MinClauseTokens == 4
\* SegConfig::default().open_voiced_frames; process_frame never reads the field
OpenVoicedFrames == 6
\* samples in one 20 ms frame
FrameSamples == 320
\* pre-roll when a segment opens from Idle / reopens from Committing, in samples
PreRollOpen == 8000
PreRollReopen == 1600
\* the voiced score that opens a segment
ScoreOpen == 3
\* frames fed to the FSM in one run
MaxFrames == 8
\* proposals waiting on the proposals channel at once
MaxQueued == 2

\* voiced_score is kept in units of 1/ScoreUnit: 0.75 * score is exact in f32 and
\* here for the first MaxFrames frames (two more fractional bits per frame)
ScoreUnit == 4 ^ MaxFrames
\* milliseconds between two consecutive process_frame calls (0: a burst)
FrameGapsMs == {0, 20, 40}
\* the global index the fed frames start at: 0 after construction, or later,
\* after frames that left the FSM Idle with score 0
StartIdxChoices == {0, 30 * FrameSamples}
\* where a proposal's clause_end_idx lies, relative to the ring's global index
ProposalOffsets == {0 - 30 * FrameSamples, 0 - 160, FrameSamples}

\* ---- text, as a sequence of characters
T_Sentence == <<"D", "o", "n", "e", ".">>
T_Short == <<"T", "o", "o", " ", "s", "h", "o", "r", "t">>
T_Comma == <<"I", " ", "t", "h", "i", "n", "k", ",">>
ProposalTexts == {T_Sentence, T_Short}
T_And == <<"G", "o", "i", "n", "g", " ", "h", "o", "m", "e", " ", "a", "n", "d">>
T_Enough == <<"a", " ", "b", " ", "c", " ", "d">>
T_Blank == <<" ">>
ClauseTexts == {T_Sentence, T_Short, T_Comma, T_And, T_Enough, T_Blank}

IsSpace(c) == c \in {" ", "\t", "\n", "\r"}

\* str::trim
RECURSIVE TrimStart(_)
TrimStart(t) == IF t # <<>> /\ IsSpace(Head(t)) THEN TrimStart(Tail(t)) ELSE t
RECURSIVE TrimEnd(_)
TrimEnd(t) ==
    IF t # <<>> /\ IsSpace(t[Len(t)]) THEN TrimEnd(SubSeq(t, 1, Len(t) - 1)) ELSE t
Trim(t) == TrimEnd(TrimStart(t))

\* str::ends_with(&str), str::contains(&str)
EndsWithStr(t, s) ==
    Len(t) >= Len(s) /\ SubSeq(t, Len(t) - Len(s) + 1, Len(t)) = s
ContainsStr(t, s) ==
    \E i \in 1..(Len(t) - Len(s) + 1) : SubSeq(t, i, i + Len(s) - 1) = s

\* str::split_whitespace().count(): the starts of the runs of non-space characters
TokenCount(t) ==
    Cardinality({i \in 1..Len(t) : ~IsSpace(t[i]) /\ (i = 1 \/ IsSpace(t[i - 1]))})

\* BoundaryFSM::is_valid_clause
IsValidClause(text) ==
    LET t == Trim(text) IN
    IF t = <<>> THEN FALSE
    ELSE IF t[Len(t)] \in {".", "?", "!", ";"} THEN TRUE
    ELSE IF TokenCount(t) >= MinClauseTokens THEN TRUE
    ELSE \/ t[Len(t)] \in {",", "-"}
         \/ EndsWithStr(t, <<" ", "a", "n", "d">>)
         \/ EndsWithStr(t, <<" ", "b", "u", "t">>)
         \/ ContainsStr(t, <<" ", "b", "e", "c", "a", "u", "s", "e", " ">>)

\* is_valid_clause_simple
IsValidClauseSimple(text, min_tokens) ==
    LET t == Trim(text) IN
    IF t = <<>> THEN FALSE
    ELSE IF t[Len(t)] \in {".", "?", "!", ";"} THEN TRUE
    ELSE TokenCount(t) >= min_tokens

\* ---- BoundaryState
Idle == [tag |-> "Idle", seg_start_idx |-> 0, last_voice_idx |-> 0, elapsed |-> 0]
\* started_at is kept as the milliseconds elapsed since it, as of the last frame
Recording(seg_start_idx, last_voice_idx, elapsed) ==
    [tag |-> "Recording", seg_start_idx |-> seg_start_idx,
     last_voice_idx |-> last_voice_idx, elapsed |-> elapsed]
\* Committing's started_at is never read
Committing(seg_start_idx, last_voice_idx) ==
    [tag |-> "Committing", seg_start_idx |-> seg_start_idx,
     last_voice_idx |-> last_voice_idx, elapsed |-> 0]

\* ---- BoundaryEvent
SilenceClose(s, e) == [kind |-> "SilenceClose", start_idx |-> s, end_idx |-> e, text |-> <<>>]
MaxLenClose(s, e) == [kind |-> "MaxLenClose", start_idx |-> s, end_idx |-> e, text |-> <<>>]
AsrClose(s, e, t) == [kind |-> "AsrClose", start_idx |-> s, end_idx |-> e, text |-> t]

\* AudioSegmenter::new; outgoing_tx is Some once set_outgoing_sender was called
SegmenterNew(has_outgoing) ==
    [ prev_fsm_state |-> None,
      next_asr_id |-> 1,
      current_turn_id |-> None,
      turn_id_generator |-> 0,
      outgoing_tx |-> has_outgoing,
      ring_chunks |-> <<>> ]

SegmenterParked ==
    /\ outgoing = <<>>
    /\ last_chunk = None

\* BoundaryFSM::new
BoundaryParked ==
    /\ segmenter = SegmenterNew(TRUE)
    /\ SegmenterParked
    /\ bstate = Idle
    /\ voiced_score = 0
    /\ next_seg_id = 1
    /\ boundary_events = <<>>
    /\ asr_proposals = <<>>
    /\ frames_fed = 0
    /\ sent_in_frame = 0
    /\ asr_requests = <<>>
    /\ last_asr_submit_idx = None
    /\ proposal_segs = <<>>
    /\ stale_close = FALSE

BoundaryInit == BoundaryParked /\ frame_cg \in StartIdxChoices

\* process_frame, line 267
DecayScore_NoDecay(score, voiced) == score + (IF voiced THEN ScoreUnit ELSE 0)
DecayScore(score, voiced) ==
    (score * 3) \div 4 + (IF voiced THEN ScoreUnit ELSE 0)

\* handle_asr_proposal, lines 354-358: the state after an AsrClose
AfterAsrClose_StayRecording(st, p) == st
AfterAsrClose(st, p) == Committing(p.clause_end_idx, p.clause_end_idx)

\* handle_asr_proposal, lines 344-346
ProposalAccepted_Inclusive(st, p, cg) ==
    /\ p.clause_end_idx > st.seg_start_idx
    /\ p.clause_end_idx <= cg
    /\ IsValidClause(p.text)
ProposalAccepted(st, p, cg) ==
    /\ p.clause_end_idx > st.seg_start_idx
    /\ p.clause_end_idx < cg
    /\ IsValidClause(p.text)

\* handle_asr_proposal on the FSM f = [state, score, next_seg_id, events]
HandleAsrProposal(f, p, cg) ==
    IF f.state.tag = "Recording" /\ ProposalAccepted(f.state, p, cg)
    THEN [f EXCEPT !.events = Append(@, AsrClose(f.state.seg_start_idx,
                                                 p.clause_end_idx, p.text)),
                   !.next_seg_id = @ + 1,
                   !.state = AfterAsrClose(f.state, p)]
    ELSE f

\* process_frame, lines 270-272: every queued proposal, in order
RECURSIVE DrainProposals(_, _, _)
DrainProposals(f, queue, cg) ==
    IF queue = <<>> THEN f
    ELSE DrainProposals(HandleAsrProposal(f, Head(queue), cg), Tail(queue), cg)

\* process_frame, lines 298-308: the close event of a Recording frame, if any
CloseEvent_Strict(st, new_last_voice, elapsed, cg) ==
    LET silence_samples == SatSub(cg, new_last_voice)
        silence_ms == (silence_samples * 1000) \div 16000
    IN  IF elapsed >= MaxTurnMs THEN Some(MaxLenClose(st.seg_start_idx, cg))
        ELSE IF silence_ms > CloseSilenceMs
             THEN Some(SilenceClose(st.seg_start_idx, cg))
             ELSE None
CloseEvent(st, new_last_voice, elapsed, cg) ==
    LET silence_samples == SatSub(cg, new_last_voice)
        silence_ms == (silence_samples * 1000) \div 16000
    IN  IF elapsed >= MaxTurnMs THEN Some(MaxLenClose(st.seg_start_idx, cg))
        ELSE IF silence_ms >= CloseSilenceMs
             THEN Some(SilenceClose(st.seg_start_idx, cg))
             ELSE None

\* process_frame, lines 276-337: the match on the state
MatchState(f, frame, cg, gap) ==
    LET st == f.state IN
    CASE st.tag = "Idle" ->
           IF f.score >= ScoreOpen * ScoreUnit
           THEN [f EXCEPT !.state = Recording(SatSub(frame.start_idx, PreRollOpen),
                                              frame.start_idx, 0)]
           ELSE f
      [] st.tag = "Recording" ->
           LET new_last_voice == IF frame.voiced THEN frame.start_idx
                                 ELSE st.last_voice_idx
               elapsed == st.elapsed + gap
               close == CloseEvent(st, new_last_voice, elapsed, cg)
           IN  IF close.some
               THEN [f EXCEPT !.events = Append(@, close.val),
                              !.next_seg_id = @ + 1,
                              !.state = Idle,
                              !.score = 0]
               ELSE [f EXCEPT !.state = Recording(st.seg_start_idx,
                                                  new_last_voice, elapsed)]
      [] st.tag = "Committing" ->
           IF f.score >= ScoreOpen * ScoreUnit
           THEN [f EXCEPT !.state = Recording(SatSub(frame.start_idx, PreRollReopen),
                                              frame.start_idx, 0)]
           ELSE f

\* process_frame, lines 265-338
ProcessFrameFn(f, queue, frame, cg, gap) ==
    MatchState(DrainProposals([f EXCEPT !.score = DecayScore(@, frame.voiced)],
                              queue, cg),
               frame, cg, gap)

\* AudioSegmenter::push_chunk, lines 783-789: one frame is classified and handed
\* to process_frame with the ring's global index after the frame; gap is the
\* time since the previous call
ProcessFrameCapped(voiced, gap, cap) ==
    /\ frames_fed < cap
    /\ LET frame == [start_idx |-> frame_cg, voiced |-> voiced]
           cg == frame_cg + FrameSamples
           f == ProcessFrameFn([state |-> bstate, score |-> voiced_score,
                                next_seg_id |-> next_seg_id,
                                events |-> boundary_events],
                               asr_proposals, frame, cg, gap)
       IN  /\ bstate' = f.state
           /\ voiced_score' = f.score
           /\ next_seg_id' = f.next_seg_id
           /\ boundary_events' = f.events
           /\ sent_in_frame' = Len(f.events) - Len(boundary_events)
           /\ frame_cg' = cg
    /\ asr_proposals' = <<>>
    /\ frames_fed' = frames_fed + 1

ProcessFrame(voiced, gap) == ProcessFrameCapped(voiced, gap, MaxFrames)

\* milliseconds of audio in one frame
FrameMs == (FrameSamples * 1000) \div 16000
\* frames fed in the runs that reach a request and its proposal
MaxStaleFrames == 14

\* ---- the ASR path: poll_asr submits a request for the open segment, a worker
\*      answers it some time later with a proposal
\* poll_asr, line 863: the new audio a request needs, in samples
PollMinSamples == 8000
\* requests waiting for a worker at once
MaxRequests == 1
\* where a worker finds the clause end, in samples from the start of the range
ClauseOffsets == {PollMinSamples - 2 * FrameSamples, PollMinSamples + FrameSamples \div 2}

\* AsrWorkerPool::submit: mpsc::Sender::send on the channel of mpsc::channel()
Submit(queue, request) == Append(queue, request)

\* poll_asr on p = [requests, last]; the ring (20 s by default) still holds the
\* segment. A request carries, as history, the id of the segment it is
\* submitted for.
PollAsrFn(p, state, cg, seg) ==
    IF state.tag = "Idle"
    THEN [p EXCEPT !.last = None]
    ELSE LET poll_end == cg
             poll_start == state.seg_start_idx
             is_new_segment == IF p.last.some THEN p.last.val < poll_start
                               ELSE TRUE
             actual_start == IF is_new_segment THEN poll_start ELSE p.last.val
         IN  IF poll_end > actual_start + PollMinSamples
             THEN [requests |->
                       Submit(p.requests,
                              [global_range |-> [start |-> poll_start,
                                                 end |-> poll_end],
                               seg |-> seg]),
                   last |-> Some(poll_end)]
             ELSE [p EXCEPT !.last = Some(actual_start)]

PollAsrCapped(waiting) ==
    /\ Len(asr_requests) < waiting
    /\ LET p == PollAsrFn([requests |-> asr_requests, last |-> last_asr_submit_idx],
                          bstate, frame_cg, next_seg_id)
       IN  /\ asr_requests' = p.requests
           /\ last_asr_submit_idx' = p.last
    /\ UNCHANGED <<bstate, voiced_score, next_seg_id, boundary_events, asr_proposals,
                   frame_cg, frames_fed, sent_in_frame, proposal_segs, stale_close>>

PollAsr == PollAsrCapped(MaxRequests)

\* asr_worker_shared and extract_clause_boundary: the worker takes a request and
\* sends a proposal if the text it has accumulated is a clause by
\* is_valid_clause_simple and ends inside the request's range
WorkerPropose(offset, text) ==
    /\ asr_requests # <<>>
    /\ Len(asr_proposals) < MaxQueued
    /\ LET request == Head(asr_requests)
           clause_end_idx == request.global_range.start + offset
       IN  IF /\ IsValidClauseSimple(text, MinClauseTokens)
              /\ clause_end_idx < request.global_range.end
           THEN /\ asr_proposals' = Append(asr_proposals,
                                           [clause_end_idx |-> clause_end_idx,
                                            text |-> text])
                /\ proposal_segs' = Append(proposal_segs, request.seg)
           ELSE UNCHANGED <<asr_proposals, proposal_segs>>
    /\ asr_requests' = Tail(asr_requests)
    /\ UNCHANGED <<bstate, voiced_score, next_seg_id, boundary_events, frame_cg,
                   frames_fed, sent_in_frame, last_asr_submit_idx, stale_close>>

\* history of a process_frame call: the first proposal it accepts was asked for
\* an earlier segment than the one it closes
StaleAccepted ==
    /\ bstate.tag = "Recording"
    /\ \E i \in 1..Len(asr_proposals) :
          /\ ProposalAccepted(bstate, asr_proposals[i], frame_cg + FrameSamples)
          /\ \A j \in 1..(i - 1) :
                 ~ProposalAccepted(bstate, asr_proposals[j], frame_cg + FrameSamples)
          /\ proposal_segs[i] # next_seg_id

\* asr_worker_shared, lines 527-531: a worker sends a proposal
AsrPropose(offset, text) ==
    /\ Len(asr_proposals) < MaxQueued
    /\ frames_fed < MaxFrames
    /\ asr_proposals' = Append(asr_proposals,
                               [clause_end_idx |-> Max(0, frame_cg + offset),
                                text |-> text])
    /\ UNCHANGED <<bstate, voiced_score, next_seg_id, boundary_events,
                   frame_cg, frames_fed, sent_in_frame>>

\* ============================================================ segment emitter
\* SegConfig::asr_timeout_ms, scaled down to two clock steps
AsrTimeoutMs == 20
\* the clock step of the emitter's specification, in ms
EmitterStepMs == AsrTimeoutMs \div 2
\* calls of process_boundary_event in one run
MaxCommits == 2

\* the segment ids handed to process_boundary_event, in any order
SegIds == 1..(MaxCommits + 1)
\* a boundary event's length in samples: short, or longer than the ring holds
EventLens == {1, Capacity + 1}
EventKinds == {"SilenceClose", "MaxLenClose", "AsrClose"}
\* frames pushed while the emitter runs: longer than the ring holds, so that a
\* push makes every earlier range unavailable (what the samples are is the
\* ring's business)
EmitterFrames == {[i \in 1..MaxFrameLen |-> 1]}

\* SegmentEmitter::new
EmitterNew ==
    /\ pending_commits = <<>>
    /\ next_emit_id = 1
    /\ output_queue = <<>>
    /\ emit_log = <<>>
    /\ recv_log = <<>>

\* SegmentEmitter::new with the configuration's asr_timeout_ms
EmitterInit == EmitterNew /\ asr_timeout_ms = AsrTimeoutMs

\* BTreeMap::insert, BTreeMap::remove
MapInsert(m, k, v) == [i \in DOMAIN m \cup {k} |-> IF i = k THEN v ELSE m[i]]
MapRemove(m, k) == [i \in DOMAIN m \ {k} |-> m[i]]

\* process_boundary_event, lines 634-638
CloseReasonOf(kind) ==
    CASE kind = "SilenceClose" -> "Silence"
      [] kind = "MaxLenClose" -> "MaxLength"
      [] kind = "AsrClose" -> "AsrClause"

\* process_boundary_event, lines 640-646; timestamp is kept as the commit's age
CommitOf(event, seg_id) ==
    [id |-> seg_id, start |-> event.start_idx, end |-> event.end_idx,
     reason |-> CloseReasonOf(event.kind),
     text |-> IF event.kind = "AsrClose" THEN Some(event.text) ELSE None,
     age |-> 0]

\* try_emit_ready_segments, lines 666-668
ShouldWait_Always(commit) ==
    /\ ~commit.text.some
    /\ commit.reason # "AsrClause"

ShouldWait(commit) ==
    /\ ~commit.text.some
    /\ commit.reason # "AsrClause"
    /\ commit.age < asr_timeout_ms

\* try_emit_ready_segments, line 692
NextEmitId_OnlyWhenEmitted(id, got_audio) == IF got_audio THEN id + 1 ELSE id
NextEmitId(id, got_audio) == id + 1

\* try_emit_ready_segments, lines 663-694, on the emitter
\* e = [pending, next_emit_id, output_queue, emit_log]
\* got[id] is what ring_buffer.get_range(commit.range) returns for commit id
RECURSIVE TryEmitReadySegmentsGot(_, _)
TryEmitReadySegmentsGot(e, got) ==
    IF e.next_emit_id \notin DOMAIN e.pending THEN e
    ELSE LET commit == e.pending[e.next_emit_id] IN
         IF ShouldWait(commit) THEN e
         ELSE LET pcm == got[e.next_emit_id]
                  segment == [id |-> e.next_emit_id, audio |-> pcm.val,
                              close_reason |-> commit.reason, text |-> commit.text]
              IN  TryEmitReadySegmentsGot(
                    [pending |-> MapRemove(e.pending, e.next_emit_id),
                     next_emit_id |-> NextEmitId(e.next_emit_id, pcm.some),
                     output_queue |-> IF pcm.some
                                      THEN Append(e.output_queue, segment)
                                      ELSE e.output_queue,
                     emit_log |-> Append(e.emit_log,
                                         [id |-> IF pcm.some THEN segment.id
                                                 ELSE commit.id,
                                          emitted |-> pcm.some])],
                    got)

TryEmitReadySegments(e) ==
    TryEmitReadySegmentsGot(e,
        [id \in DOMAIN e.pending |->
            GetRangeResult(buffer, write_pos, global_idx,
                           e.pending[id].start, e.pending[id].end)])

Emitter == [pending |-> pending_commits, next_emit_id |-> next_emit_id,
            output_queue |-> output_queue, emit_log |-> emit_log]

SetEmitter(e) ==
    /\ pending_commits' = e.pending
    /\ next_emit_id' = e.next_emit_id
    /\ output_queue' = e.output_queue
    /\ emit_log' = e.emit_log

\* process_boundary_event, lines 633-650, for an event that ends at the ring's
\* current global index
ProcessBoundaryEvent(kind, len, seg_id) ==
    /\ Len(recv_log) < MaxCommits
    /\ LET event == [kind |-> kind, start_idx |-> SatSub(global_idx, len),
                     end_idx |-> global_idx,
                     text |-> IF kind = "AsrClose" THEN T_Sentence ELSE <<>>]
       IN  SetEmitter(TryEmitReadySegments(
               [Emitter EXCEPT !.pending = MapInsert(@, seg_id,
                                                     CommitOf(event, seg_id))]))
    /\ recv_log' = Append(recv_log, seg_id)
    /\ UNCHANGED <<ringVars, asr_timeout_ms>>

\* add_transcript, lines 653-660
AddTranscript(seg_id, text) ==
    /\ IF seg_id \in DOMAIN pending_commits /\ ~pending_commits[seg_id].text.some
       THEN SetEmitter(TryEmitReadySegments(
               [Emitter EXCEPT !.pending[seg_id].text = Some(text)]))
       ELSE UNCHANGED <<pending_commits, next_emit_id, output_queue, emit_log>>
    /\ UNCHANGED <<recv_log, ringVars, asr_timeout_ms>>

\* pop_segment, lines 697-700
PopSegment ==
    /\ LET e == TryEmitReadySegments(Emitter) IN
         SetEmitter([e EXCEPT !.output_queue =
                                 IF @ = <<>> THEN @ ELSE Tail(@)])
    /\ UNCHANGED <<recv_log, ringVars, asr_timeout_ms>>

\* time passes: every pending commit's timestamp.elapsed() grows (an age at or
\* past the timeout is kept as the timeout)
EmitterTick ==
    /\ \E i \in DOMAIN pending_commits : pending_commits[i].age < asr_timeout_ms
    /\ pending_commits' =
         [i \in DOMAIN pending_commits |->
            [pending_commits[i] EXCEPT
               !.age = Min(@ + EmitterStepMs, asr_timeout_ms)]]
    /\ UNCHANGED <<next_emit_id, output_queue, emit_log, recv_log, ringVars,
                   asr_timeout_ms>>

\* AudioSegmenter::push_chunk, line 777: the segmenter's thread pushes a frame
EmitterPush(samples) ==
    /\ PushFrame(samples)
    /\ UNCHANGED <<pending_commits, next_emit_id, output_queue, emit_log, recv_log,
                   asr_timeout_ms>>

\* ============================================================ AudioSegmenter
\* SegConfig::ring_capacity, the default
RingCapacity == 320000
\* chunk lengths offered to push_chunk
ChunkLens == {FrameSamples - 1, FrameSamples, FrameSamples + 1}

\* a chunk is known by its length and by what the VAD says of it
Chunk(len, voiced) == [len |-> len, voiced |-> voiced]

\* FrameClassifier::classify_frame: Err for a wrong length, before the VAD and
\* before the send; otherwise the FrameMeta sent on frame_queue
ClassifyFrame_AnyLength(chunk, start_idx) ==
    [ok |-> TRUE, frames |-> <<[start_idx |-> start_idx, voiced |-> chunk.voiced]>>]
ClassifyFrame(chunk, start_idx) ==
    IF chunk.len # FrameSamples
    THEN [ok |-> FALSE, frames |-> <<>>]
    ELSE [ok |-> TRUE, frames |-> <<[start_idx |-> start_idx, voiced |-> chunk.voiced]>>]

\* push_chunk, lines 771-774
ChunkRejected_Never(chunk) == FALSE
ChunkRejected(chunk) == chunk.len # FrameSamples

\* ---- Outgoing
OutActivityStart(turn_id) == [type |-> "ActivityStart", turn_id |-> turn_id]
OutAudioChunk(chunk, turn_id) ==
    [type |-> "AudioChunk", turn_id |-> turn_id, chunk |-> chunk]
OutActivityEnd(turn_id) == [type |-> "ActivityEnd", turn_id |-> turn_id]

\* AudioRingBuffer::get_range on the segmenter's ring, whose global index is cg;
\* the audio of a range is named by its bounds
ChunkRange(cg, a, b) ==
    IF a < SatSub(cg, RingCapacity) \/ b > cg THEN None ELSE Some(<<a, b>>)

TryEmitOnRing(e, cg) ==
    TryEmitReadySegmentsGot(e,
        [id \in DOMAIN e.pending |->
            ChunkRange(cg, e.pending[id].start, e.pending[id].end)])

\* push_chunk, lines 795-812, on x = [seg, out]: the outgoing events of a frame
SendFrameEvents(x, prev_state, current_state, chunk) ==
    IF ~x.seg.outgoing_tx THEN x
    ELSE
    LET opened == /\ (~prev_state.some \/ prev_state.val.tag = "Idle")
                  /\ current_state.tag = "Recording"
        turn_id == x.seg.turn_id_generator
        x1 == IF opened
              THEN [seg |-> [x.seg EXCEPT !.turn_id_generator = @ + 1,
                                          !.current_turn_id = Some(turn_id)],
                    out |-> Append(x.out, OutActivityStart(turn_id))]
              ELSE x
    IN  IF x1.seg.current_turn_id.some
           /\ current_state.tag \in {"Recording", "Committing"}
        THEN [x1 EXCEPT !.out = Append(@, OutAudioChunk(chunk,
                                                        x1.seg.current_turn_id.val))]
        ELSE x1

\* push_chunk, lines 818-832, on y = [seg, out, e, recv]: the boundary events
\* received after the frame
RECURSIVE HandleBoundaryEvents(_, _, _)
HandleBoundaryEvents(y, events, cg) ==
    IF events = <<>> THEN y
    ELSE LET seg_id == y.seg.next_asr_id
             ended == y.seg.outgoing_tx /\ y.seg.current_turn_id.some
             seg1 == [y.seg EXCEPT !.next_asr_id = @ + 1,
                                   !.current_turn_id =
                                       IF y.seg.outgoing_tx THEN None ELSE @]
         IN  HandleBoundaryEvents(
                 [seg |-> seg1,
                  out |-> IF ended
                          THEN Append(y.out,
                                      OutActivityEnd(y.seg.current_turn_id.val))
                          ELSE y.out,
                  e |-> TryEmitOnRing(
                            [y.e EXCEPT !.pending =
                                MapInsert(@, seg_id, CommitOf(Head(events), seg_id))],
                            cg),
                  recv |-> Append(y.recv, seg_id)],
                 Tail(events), cg)

\* AudioSegmenter::push_chunk for one chunk; polls says whether asr_poll_ms have
\* passed since the last poll
PushChunk(len, voiced, polls) ==
    LET chunk == Chunk(len, voiced) IN
    IF ChunkRejected(chunk)
    THEN /\ last_chunk' = Some([len |-> len, returned |-> None])
         /\ UNCHANGED <<bstate, voiced_score, next_seg_id, boundary_events,
                        asr_proposals, frame_cg, frames_fed, sent_in_frame,
                        asr_requests, last_asr_submit_idx, proposal_segs,
                        stale_close, segmenter, outgoing, emitterVars>>
    ELSE
    LET chunk_start_idx == frame_cg
        cg == frame_cg + len
        classified == ClassifyFrame(chunk, chunk_start_idx)
        f0 == [state |-> bstate, score |-> voiced_score,
               next_seg_id |-> next_seg_id, events |-> boundary_events]
        f == IF classified.frames = <<>> THEN f0
             ELSE ProcessFrameFn(f0, asr_proposals, Head(classified.frames), cg,
                                 FrameMs)
        x == SendFrameEvents(
                 [seg |-> [segmenter EXCEPT !.ring_chunks = Append(@, chunk)],
                  out |-> outgoing],
                 segmenter.prev_fsm_state, f.state, chunk)
        y == HandleBoundaryEvents(
                 [seg |-> [x.seg EXCEPT !.prev_fsm_state = Some(f.state)],
                  out |-> x.out, e |-> Emitter, recv |-> recv_log],
                 SubSeq(f.events, Len(boundary_events) + 1, Len(f.events)), cg)
        p0 == [requests |-> asr_requests, last |-> last_asr_submit_idx]
        p == IF polls THEN PollAsrFn(p0, f.state, cg, f.next_seg_id) ELSE p0
        e == TryEmitOnRing(y.e, cg)
    IN  /\ frames_fed < MaxFrames
        /\ polls => Len(asr_requests) < MaxRequests
        /\ bstate' = f.state
        /\ voiced_score' = f.score
        /\ next_seg_id' = f.next_seg_id
        /\ boundary_events' = f.events
        /\ sent_in_frame' = Len(f.events) - Len(boundary_events)
        /\ frame_cg' = cg
        /\ frames_fed' = frames_fed + 1
        /\ asr_proposals' = IF classified.frames = <<>> THEN asr_proposals ELSE <<>>
        /\ proposal_segs' = IF classified.frames = <<>> THEN proposal_segs ELSE <<>>
        /\ stale_close' = (stale_close \/ StaleAccepted)
        /\ asr_requests' = p.requests
        /\ last_asr_submit_idx' = p.last
        /\ segmenter' = y.seg
        /\ outgoing' = y.out
        /\ recv_log' = y.recv
        /\ SetEmitter([e EXCEPT !.output_queue = IF @ = <<>> THEN @ ELSE Tail(@)])
        /\ last_chunk' = Some([len |-> len,
                               returned |-> IF e.output_queue = <<>> THEN None
                                            ELSE Some(Head(e.output_queue))])
        /\ UNCHANGED asr_timeout_ms

\* ============================================================ SimpleTurnFsm

FRAMES_PER_TURN == 2
FORCE_FRAME_TIMEOUT_MS == 50
\* the period of timeout_checker in the runner
TickMs == 10

\* time advances in steps of half a tick period
TimeStep == TickMs \div 2
\* wait_elapsed saturates here, well past the timeout
ElapsedCap == FORCE_FRAME_TIMEOUT_MS + 3 * TickMs

\* messages handed to the wire in one run
MaxWire == 8

\* frame ids (the runner uses the frame id as the hash); 0 is the initial
\* last_frame_hash
Hashes == {0, 1}
\* ms until the next tick of timeout_checker at the moment a wait starts
TickPhases == {k * TimeStep : k \in 1..(TickMs \div TimeStep)}
Jpegs == {<<255, 216>>}
Pcms == {<<1, 0, 2>>}

\* builds with FRAMES_PER_TURN in 1..MaxPerTurn
MaxPerTurn == 3
\* frames told apart by their bytes, and ids that repeat or change
TwoJpegs == {<<255, 216>>, <<255, 217>>}
FrameIds == {0, 1, 2}

\* messages handed to the wire in a run that tells frames and chunks apart
MaxWireSpeech == 6
TwoPcms == {<<1, 0>>, <<2, 0>>}

\* ---- base64::engine::general_purpose::STANDARD.encode
B64Alphabet ==
    << "A","B","C","D","E","F","G","H","I","J","K","L","M","N","O","P",
       "Q","R","S","T","U","V","W","X","Y","Z","a","b","c","d","e","f",
       "g","h","i","j","k","l","m","n","o","p","q","r","s","t","u","v",
       "w","x","y","z","0","1","2","3","4","5","6","7","8","9","+","/" >>

B64Char(n) == B64Alphabet[n + 1]

RECURSIVE Base64Encode(_)
Base64Encode(bytes) ==
    IF Len(bytes) = 0 THEN <<>>
    ELSE IF Len(bytes) = 1 THEN
        << B64Char(bytes[1] \div 4), B64Char((bytes[1] % 4) * 16), "=", "=" >>
    ELSE IF Len(bytes) = 2 THEN
        << B64Char(bytes[1] \div 4),
           B64Char((bytes[1] % 4) * 16 + (bytes[2] \div 16)),
           B64Char((bytes[2] % 16) * 4), "=" >>
    ELSE
        << B64Char(bytes[1] \div 4),
           B64Char((bytes[1] % 4) * 16 + (bytes[2] \div 16)),
           B64Char((bytes[2] % 16) * 4 + (bytes[3] \div 64)),
           B64Char(bytes[3] % 64) >>
        \o Base64Encode(SubSeq(bytes, 4, Len(bytes)))

\* ---- the JSON values of the send_* helpers: a record per JSON object, its
\*      fields the object's keys
ActivityStartMsg == [activityStart |-> <<>>]
ActivityEndMsg == [activityEnd |-> <<>>]
AudioMsg(pcm) ==
    [audio |-> [data |-> Base64Encode(pcm), mimeType |-> "audio/pcm;rate=16000"]]
VideoMsg(jpeg) ==
    [video |-> [data |-> Base64Encode(jpeg), mimeType |-> "image/jpeg"]]
VideoMsg_WithMarker(jpeg) ==
    [video |-> [data |-> Base64Encode(jpeg), mimeType |-> "image/jpeg"],
     activityEnd |-> <<>>]
SetupMsg(mode) ==
    [setup |-> [realtimeInputConfig |-> [activityHandling |-> mode]]]

SendActivityStart(f) == [f EXCEPT !.outbound = Append(@, ActivityStartMsg)]
SendActivityEnd_Nothing(f) == f
SendActivityEnd(f) == [f EXCEPT !.outbound = Append(@, ActivityEndMsg)]
SendAudio(f, pcm) == [f EXCEPT !.outbound = Append(@, AudioMsg(pcm))]
SendVideo_WithMarker(f, jpeg) ==
    [f EXCEPT !.outbound = Append(@, VideoMsg_WithMarker(jpeg))]
SendVideo(f, jpeg) == [f EXCEPT !.outbound = Append(@, VideoMsg(jpeg))]
SendActivityHandlingUpdate(f, mode) ==
    [f EXCEPT !.outbound = Append(@, SetupMsg(mode))]

\* ---- SimpleTurnFsm::new; media_tx counts the ForceCaptureRequests sent on it,
\*      the Instants of turn_end_times are left out (only was_video is kept)
FsmNew ==
    [ state |-> "Idle",
      last_frame_hash |-> 0,
      frame_batch |-> <<>>,
      video_sent_in_audio_turn |-> FALSE,
      last_frame_data |-> None,
      media_tx |-> 0,
      force_frame_wait_start |-> None,
      outbound |-> <<>>,
      turn_end_times |-> <<>>,
      last_turn_was_video |-> FALSE,
      pending_turn_types |-> <<>>,
      need_activity_reset |-> FALSE ]

\* ---- Event
FrameEv(jpeg, hash) == [type |-> "Frame", jpeg |-> jpeg, hash |-> hash]
SpeechStartEv == [type |-> "SpeechStart"]
AudioChunkEv(pcm) == [type |-> "AudioChunk", pcm |-> pcm]
SpeechEndEv == [type |-> "SpeechEnd"]
ResponseReceivedEv == [type |-> "ResponseReceived"]

\* turn_end_times.push_back((now, was_video)); pending_turn_types.push_back(was_video)
PushTurnEnd(f, was_video) ==
    [f EXCEPT !.turn_end_times = Append(@, was_video),
              !.pending_turn_types = Append(@, was_video)]

RECURSIVE SendVideos_Reversed(_, _)
SendVideos_Reversed(f, frames) ==
    IF frames = <<>> THEN f
    ELSE SendVideo(SendVideos_Reversed(f, Tail(frames)), Head(frames))

\* for frame in &frames { self.send_video(frame) }
RECURSIVE SendVideos(_, _)
SendVideos(f, frames) ==
    IF frames = <<>> THEN f
    ELSE SendVideos(SendVideo(f, Head(frames)), Tail(frames))

\* activityStart, the batch taken out of frame_batch, activityEnd, bookkeeping
SendBatch(f) ==
    LET f1 == SendActivityStart(f)
        f2 == SendVideos([f1 EXCEPT !.frame_batch = <<>>], f1.frame_batch)
        f3 == SendActivityEnd(f2)
    IN  PushTurnEnd([f3 EXCEPT !.last_turn_was_video = TRUE], TRUE)

PendingVideo(f) ==
    \E i \in 1..Len(f.pending_turn_types) : f.pending_turn_types[i]

\* if pending_video { send_activity_handling_update(..); need_activity_reset = true }
InterruptPending(f) ==
    IF PendingVideo(f)
    THEN [SendActivityHandlingUpdate(f, "START_OF_ACTIVITY_INTERRUPTS")
            EXCEPT !.need_activity_reset = TRUE]
    ELSE f

\* if self.need_activity_reset { send NO_INTERRUPTION; need_activity_reset = false }
RestoreMode(f) ==
    IF f.need_activity_reset
    THEN [SendActivityHandlingUpdate(f, "NO_INTERRUPTION")
            EXCEPT !.need_activity_reset = FALSE]
    ELSE f

StartAudioTurn(f) ==
    [SendActivityStart(f) EXCEPT !.last_turn_was_video = FALSE,
                                 !.video_sent_in_audio_turn = FALSE,
                                 !.state = "AudioTurn"]

SendCachedFrame_Never(f) == f

\* if let Some(frame_data) = self.last_frame_data.clone() { send_video }
SendCachedFrame(f) ==
    IF f.last_frame_data.some THEN SendVideo(f, f.last_frame_data.val) ELSE f

\* ---- the arms of on_event
IdleFrame(f, jpeg, hash) ==
    LET f1 == [f EXCEPT !.last_frame_data = Some(jpeg)] IN
    IF frames_per_turn > 1
    THEN [f1 EXCEPT !.frame_batch = Append(@, jpeg),
                    !.last_frame_hash = hash,
                    !.state = "FrameBatch"]
    ELSE LET f2 == SendActivityEnd(SendVideo(SendActivityStart(f1), jpeg))
         IN  PushTurnEnd([f2 EXCEPT !.last_frame_hash = hash,
                                    !.last_turn_was_video = TRUE], TRUE)

IdleSpeechStart(f) == StartAudioTurn(InterruptPending(f))

FrameBatchFrame(f, jpeg, hash) ==
    LET f1 == [f EXCEPT !.last_frame_data = Some(jpeg),
                        !.frame_batch = Append(@, jpeg),
                        !.last_frame_hash = hash]
    IN  IF Len(f1.frame_batch) >= frames_per_turn
        THEN LET f2 == SendActivityEnd(
                           SendVideos([SendActivityStart(f1) EXCEPT !.frame_batch = <<>>],
                                      f1.frame_batch))
             IN  PushTurnEnd([f2 EXCEPT !.state = "Idle",
                                        !.last_turn_was_video = TRUE], TRUE)
        ELSE f1

FrameBatchSpeechStart_CheckFirst(f) ==
    LET f1 == InterruptPending(f)
        f2 == IF f1.frame_batch # <<>> THEN SendBatch(f1) ELSE f1
    IN  StartAudioTurn(f2)

FrameBatchSpeechStart(f) ==
    LET f1 == IF f.frame_batch # <<>> THEN SendBatch(f) ELSE f
    IN  StartAudioTurn(InterruptPending(f1))

AudioTurnAudioChunk(f, pcm) == SendAudio(f, pcm)

AudioTurnFrame(f, jpeg, hash) ==
    [SendVideo([f EXCEPT !.last_frame_data = Some(jpeg)], jpeg)
        EXCEPT !.last_frame_hash = hash,
               !.video_sent_in_audio_turn = TRUE]

AudioTurnSpeechEnd(f) ==
    [f EXCEPT !.media_tx = @ + 1,
              !.force_frame_wait_start = Some(<<"now">>),
              !.state = "WaitingForForcedFrame"]

WaitingFrame_Cached(f, jpeg, hash) ==
    LET f1 == [SendCachedFrame(f) EXCEPT !.last_frame_data = Some(jpeg)]
        f2 == SendActivityEnd(RestoreMode([f1 EXCEPT !.last_frame_hash = hash]))
    IN  PushTurnEnd([f2 EXCEPT !.state = "Idle",
                               !.force_frame_wait_start = None,
                               !.last_turn_was_video = FALSE], FALSE)

WaitingFrame(f, jpeg, hash) ==
    LET f1 == SendVideo([f EXCEPT !.last_frame_data = Some(jpeg)], jpeg)
        f2 == SendActivityEnd(RestoreMode([f1 EXCEPT !.last_frame_hash = hash]))
    IN  PushTurnEnd([f2 EXCEPT !.state = "Idle",
                               !.force_frame_wait_start = None,
                               !.last_turn_was_video = FALSE], FALSE)

WaitingSpeechStart_EndFirst(f) ==
    LET f1 == RestoreMode(SendCachedFrame(SendActivityEnd(f)))
        f2 == PushTurnEnd([f1 EXCEPT !.last_turn_was_video = FALSE], FALSE)
    IN  StartAudioTurn(f2)

\* force_frame_wait_start is not cleared on this arm
WaitingSpeechStart(f) ==
    LET f1 == SendActivityEnd(RestoreMode(SendCachedFrame(f)))
        f2 == PushTurnEnd([f1 EXCEPT !.last_turn_was_video = FALSE], FALSE)
    IN  StartAudioTurn(f2)

OnResponseReceived_KeepTypes(f) ==
    IF f.turn_end_times # <<>> THEN [f EXCEPT !.turn_end_times = Tail(@)] ELSE f

OnResponseReceived(f) ==
    IF f.turn_end_times # <<>>
    THEN [f EXCEPT !.turn_end_times = Tail(@),
                   !.pending_turn_types = IF @ = <<>> THEN @ ELSE Tail(@)]
    ELSE f

OnEvent_ChunkAnywhere(f, ev) ==
    IF ev.type = "AudioChunk" THEN SendAudio(f, ev.pcm) ELSE f

\* ---- SimpleTurnFsm::on_event: the first arm that matches
OnEvent(f, ev) ==
    CASE f.state = "Idle" /\ ev.type = "Frame" /\ ev.hash # f.last_frame_hash ->
            IdleFrame(f, ev.jpeg, ev.hash)
      [] f.state = "Idle" /\ ev.type = "SpeechStart" ->
            IdleSpeechStart(f)
      [] f.state = "FrameBatch" /\ ev.type = "Frame" /\ ev.hash # f.last_frame_hash ->
            FrameBatchFrame(f, ev.jpeg, ev.hash)
      [] f.state = "FrameBatch" /\ ev.type = "SpeechStart" ->
            FrameBatchSpeechStart(f)
      [] f.state = "AudioTurn" /\ ev.type = "AudioChunk" ->
            AudioTurnAudioChunk(f, ev.pcm)
      [] f.state = "AudioTurn" /\ ev.type = "Frame" /\ ev.hash # f.last_frame_hash ->
            AudioTurnFrame(f, ev.jpeg, ev.hash)
      [] f.state = "AudioTurn" /\ ev.type = "SpeechEnd" ->
            AudioTurnSpeechEnd(f)
      [] f.state = "WaitingForForcedFrame" /\ ev.type = "Frame" ->
            WaitingFrame(f, ev.jpeg, ev.hash)
      [] f.state = "WaitingForForcedFrame" /\ ev.type = "SpeechStart" ->
            WaitingSpeechStart(f)
      [] ev.type = "ResponseReceived" ->
            OnResponseReceived(f)
      [] OTHER -> f

\* ---- SimpleTurnFsm::check_force_frame_timeout, elapsed = start.elapsed() in ms
TimedOut_Late(elapsed) == elapsed > FORCE_FRAME_TIMEOUT_MS + 2 * TickMs
TimedOut(elapsed) == elapsed > FORCE_FRAME_TIMEOUT_MS

CheckForceFrameTimeout(f, elapsed) ==
    IF /\ f.state = "WaitingForForcedFrame"
       /\ f.force_frame_wait_start.some
       /\ TimedOut(elapsed)
    THEN LET f1 == SendActivityEnd(RestoreMode(SendCachedFrame(f)))
         IN  PushTurnEnd([f1 EXCEPT !.state = "Idle",
                                    !.force_frame_wait_start = None,
                                    !.last_turn_was_video = FALSE], FALSE)
    ELSE f

\* ---- SimpleTurnFsm::drain_messages
DrainMessages(f) == [f EXCEPT !.outbound = <<>>]

\* ---- the runner (simple_turn_runner.rs, run)
\* ---- TurnRecorder (recorder.rs). A directory is named by its prefix and the
\*      turn id in its name; the files themselves are not kept.
TurnRecorderNew(enabled) ==
    [ enabled |-> enabled,
      cur_dir |-> None,
      cur_audio |-> FALSE,                  \* Option<BufWriter<File>> is Some
      pending_audio_close_for_turn |-> FALSE,
      VIDEO_TURN_COUNTER |-> 1000 ]

TurnDir(turn_id) == [prefix |-> "turn_", id |-> turn_id]
VideoTurnDir(turn_id) == [prefix |-> "turn_v", id |-> turn_id]

\* on_outgoing, called with the Outgoing the runner turns into the FSM event ev
OnOutgoing(tr, ev, turn_id) ==
    IF ~tr.enabled THEN tr
    ELSE IF ev.type = "SpeechStart" THEN       \* Outgoing::ActivityStart(turn_id)
        [tr EXCEPT !.cur_dir = Some(TurnDir(turn_id)),
                  !.pending_audio_close_for_turn = FALSE,
                  !.cur_audio = TRUE]
    ELSE IF ev.type = "SpeechEnd" THEN         \* Outgoing::ActivityEnd
        [tr EXCEPT !.cur_audio = FALSE,
                  !.pending_audio_close_for_turn = TRUE]
    ELSE tr                                     \* AudioChunk: appended to audio.pcm

JsonGet(json, key) == key \in DOMAIN json

\* on_ws for one wire message
OnWs(tr, json) ==
    IF ~tr.enabled THEN tr
    ELSE
    LET tr1 == IF JsonGet(json, "activityStart") /\ ~tr.cur_dir.some
              THEN [tr EXCEPT !.cur_dir = Some(VideoTurnDir(tr.VIDEO_TURN_COUNTER)),
                             !.VIDEO_TURN_COUNTER = @ + 1]
              ELSE tr
    IN  IF JsonGet(json, "activityEnd") /\ tr1.pending_audio_close_for_turn
        THEN [tr1 EXCEPT !.cur_dir = None, !.pending_audio_close_for_turn = FALSE]
        ELSE IF JsonGet(json, "activityEnd") /\ tr1.cur_dir.some
        THEN [tr1 EXCEPT !.cur_dir = None]
        ELSE tr1

RECURSIVE OnWsAll(_, _)
OnWsAll(tr, msgs) ==
    IF msgs = <<>> THEN tr ELSE OnWsAll(OnWs(tr, Head(msgs)), Tail(msgs))

\* the messages of one for loop that on_ws is called with: all of them, or only
\* the first when its send fails
Recorded(out) == IF ws_open \/ out = <<>> THEN out ELSE <<Head(out)>>

\* history of one pass: before is the FSM state the pass starts in, tr1 the
\* recorder after on_outgoing, after the FSM state the pass ends in, started
\* whether the pass began an audio turn. A video message ahead of the first
\* activityEnd of a pass that starts inside an audio turn belongs to that turn
\* and is written into tr1.cur_dir.
InAudioTurn(state) == state \in {"AudioTurn", "WaitingForForcedFrame"}

RECURSIVE VideoBeforeEnd(_)
VideoBeforeEnd(msgs) ==
    /\ msgs # <<>>
    /\ ~JsonGet(Head(msgs), "activityEnd")
    /\ (JsonGet(Head(msgs), "video") \/ VideoBeforeEnd(Tail(msgs)))

RecHist(before, tr1, out, after, started) ==
    IF ~tr1.enabled THEN rec_hist
    ELSE
    [ rec_hist EXCEPT
      !.turn_dir = IF ~InAudioTurn(after) THEN None
                   ELSE IF started THEN tr1.cur_dir
                   ELSE rec_hist.turn_dir,
      !.filed = IF InAudioTurn(before) /\ VideoBeforeEnd(out)
                THEN rec_hist.filed \cup {<<tr1.cur_dir, rec_hist.turn_dir>>}
                ELSE rec_hist.filed ]

\* the position in msgs of the activityStart that opens the audio turn of a
\* SpeechStart pass (the last activityStart the pass sends), 0 when there is none
RECURSIVE LastStart(_, _)
LastStart(msgs, n) ==
    IF n = 0 THEN 0
    ELSE IF JsonGet(msgs[n], "activityStart") THEN n
    ELSE LastStart(msgs, n - 1)

\* history of on_ws over the messages of one pass, from the recorder tr the
\* first on_ws call finds: per wire activityStart whether on_ws opened a
\* directory and for which kind of turn, and per video message written the
\* directory it went to, the kind of the wire turn it belongs to, and whether
\* the directory is the one on_ws opened at that turn's activityStart
RECURSIVE WsLog(_, _, _, _)
WsLog(h, tr, msgs, audio_at) ==
    IF msgs = <<>> \/ ~tr.enabled THEN h
    ELSE
    LET json == Head(msgs)
        is_start == JsonGet(json, "activityStart")
        is_end == JsonGet(json, "activityEnd")
        opened == is_start /\ ~tr.cur_dir.some
        tr2 == OnWs(tr, json)
        kind == IF is_start THEN (IF audio_at = 1 THEN "audio" ELSE "video")
                ELSE h.wire_kind
        own == IF is_start THEN (IF opened THEN tr2.cur_dir ELSE None)
               ELSE h.wire_own
        h2 == [ h EXCEPT
                !.wire_kind = IF is_end THEN "none" ELSE kind,
                !.wire_own = IF is_end THEN None ELSE own,
                !.starts = IF is_start
                           THEN @ \cup {[kind |-> kind, opened |-> opened]}
                           ELSE @,
                !.ends = IF is_end /\ h.wire_own.some
                         THEN @ \cup {[kind |-> h.wire_kind,
                                       closed |-> tr.cur_dir = h.wire_own
                                                  /\ ~tr2.cur_dir.some]}
                         ELSE @,
                !.vfiled = IF JsonGet(json, "video") /\ tr.cur_dir.some
                           THEN @ \cup {[prefix |-> tr.cur_dir.val.prefix,
                                         kind |-> h.wire_kind,
                                         own |-> tr.cur_dir = h.wire_own]}
                           ELSE @ ]
    IN  WsLog(h2, tr2, Tail(msgs), IF audio_at = 0 THEN 0 ELSE audio_at - 1)

\* ---- send_turn_to_gemini (audio_seg.rs) over GeminiClient (gemini_client.rs).
\*      The bytes of a turn are named by their offsets in pcm_bytes: an audio
\*      frame carries the slice from..to of it.
FIRST_MAX == 256000
MAX_WEBSOCKET == 1000000

RtActivityStart == [activityStart |-> <<>>]
RtAudio(from, to) ==
    [audio |-> [from |-> from, to |-> to, mimeType |-> "audio/pcm;rate=16000"]]
RtFlags(activity_end, audio_stream_end) ==
    IF activity_end /\ audio_stream_end
    THEN [activityEnd |-> <<>>, audioStreamEnd |-> TRUE]
    ELSE IF activity_end THEN [activityEnd |-> <<>>]
    ELSE [audioStreamEnd |-> TRUE]

\* the frames send_audio_with_activity sends for pcm_bytes[from..to]
SendAudioWithActivity(from, to, activity_start, activity_end, audio_stream_end) ==
    (IF activity_start THEN <<RtActivityStart>> ELSE <<>>)
    \o (IF to > from THEN <<RtAudio(from, to)>> ELSE <<>>)
    \o (IF activity_end \/ audio_stream_end
        THEN <<RtFlags(activity_end, audio_stream_end)>> ELSE <<>>)

\* pcm_bytes[from..].chunks(MAX_WEBSOCKET), each sent without a flag
RECURSIVE MiddleSlices(_, _)
MiddleSlices(from, len) ==
    IF from >= len THEN <<>>
    ELSE SendAudioWithActivity(from, Min(from + MAX_WEBSOCKET, len),
                               FALSE, FALSE, FALSE)
         \o MiddleSlices(Min(from + MAX_WEBSOCKET, len), len)

\* i16_slice_to_u8: two bytes per sample
I16SliceToU8Len(samples) == samples * 2

\* the frames send_turn_to_gemini sends for a turn of that many samples when no
\* send fails
SendTurnToGemini(samples) ==
    LET len == I16SliceToU8Len(samples)
        first_chunk_size == Min(FIRST_MAX, len)
    IN  SendAudioWithActivity(0, first_chunk_size, TRUE, FALSE, FALSE)
        \o MiddleSlices(first_chunk_size, len)
        \o SendAudioWithActivity(len, len, FALSE, FALSE, TRUE)

GeminiIdle == [turn |-> None, plan |-> <<>>, sent |-> <<>>, result |-> "none"]

\* ---- the two tasks async_main spawns around awaiting_generation and
\*      turn_backlog (main.rs). A tokio Mutex is free or held by one task; a
\*      task that locks a mutex it holds itself waits for itself.
BacklogCap == 10

TasksStarted ==
    [ awaiting |-> FALSE,            \* *awaiting_generation_arc
      backlog |-> <<>>,              \* *turn_backlog
      awaiting_lock |-> "free",
      backlog_lock |-> "free",
      gemini_lock |-> "free",
      h_pc |-> "recv",               \* the response handler
      turns_to_process |-> <<>>,
      h_turn |-> None,
      t_pc |-> "recv",               \* the turn-processing task
      t_turn |-> None,
      next_turn |-> 1,               \* the id of the next SegmentedTurn on turn_rx
      completions |-> 0,             \* GenerationComplete responses received
      sent |-> <<>> ]                \* the send_turn_to_gemini calls made

\* ---- Broker (broker.rs). Time is kept in steps of BrokerTimeStep: a frame's
\*      age saturates at the second the speech turn's cutoff asks about, the
\*      time since last_audio_time just past VIDEO_GRACE_MS. turn_latencies, which
\*      no handler reads, is not kept.
VIDEO_GRACE_MS == 1000
MIN_NEW_FRAMES == 2
MAX_FRAMES_PER_TURN == 5
RecentFramesCap == 10
FrameCutoffMs == 1000
BrokerTimeStep == 1000

BrokerNew ==
    [ state |-> "Idle",
      recent_frames |-> <<>>,          \* FrameId as [jpeg, age]
      since_audio |-> 0,               \* last_audio_time.elapsed()
      frames_sent_in_turn |-> 0,
      next_turn_id |-> 0,
      pending_turns |-> <<>>,
      returned |-> <<>>,               \* history: what the last call returned
      last_call |-> "new",             \* history: the last call
      open |-> FALSE,                  \* history: an activityStart is not yet ended
      bracketed |-> TRUE,              \* history: the messages so far are bracketed
      new_frames |-> 0 ]               \* history: frames since the last turn that
                                       \* set frames_sent_in_turn, up to MIN_NEW_FRAMES

\* run() is entered with every channel open
RunnerStarted ==
    [media_senders |-> TRUE, outgoing_open |-> TRUE, ws_in_open |-> TRUE,
     returned |-> FALSE]

RunnerInit ==
    /\ dup_frame = None
    /\ last_event = None
    /\ runner = RunnerStarted
    /\ gemini = GeminiIdle
    /\ tasks = TasksStarted
    /\ frame_counter = 0
    /\ broker = BrokerNew
    /\ rec_hist = [turn_id |-> 1, turn_dir |-> None, filed |-> {},
                   wire_kind |-> "none", wire_own |-> None,
                   starts |-> {}, ends |-> {}, vfiled |-> {}]
    /\ fsm = FsmNew
    /\ wire = <<>>
    /\ wait_elapsed = 0
    /\ tick_in = 0
    /\ turn_log = <<>>
    /\ ws_open = TRUE
    /\ send_failed = FALSE
    /\ handled_after_failure = FALSE

TurnInit ==
    /\ RunnerInit
    /\ frames_per_turn = FRAMES_PER_TURN
    /\ rec = TurnRecorderNew(FALSE)

\* for msg in fsm.drain_messages() { if ws_out_tx.send(msg).is_err() { break; } }
\* the messages reach the wire while the receiver is alive; once it is gone the
\* first send fails and the break leaves the for loop, the drained rest is lost
Sent(out) == IF ws_open THEN out ELSE <<>>
SendFails(out) == ~ws_open /\ out # <<>>

\* one pass of the loop for an event of media_rx, outgoing_rx or ws_in_rx:
\* on_event, drain_messages to ws_out_tx, then the check_force_frame_timeout
\* and drain_messages at the top of the next pass, before the next select
RunnerEventCapped(ev, cap) ==
    LET f1 == OnEvent(fsm, ev)
        e1 == IF fsm.state = "AudioTurn" /\ f1.state = "WaitingForForcedFrame"
              THEN 0 ELSE wait_elapsed
        f2 == CheckForceFrameTimeout(DrainMessages(f1), e1)
        out == f1.outbound \o f2.outbound
        opened == ev.type = "SpeechStart" /\ fsm.state \in {"Idle", "FrameBatch"}
        r1 == OnOutgoing(rec, ev, rec_hist.turn_id)
        started == ev.type = "SpeechStart" /\ fsm.state # "AudioTurn"
                                           /\ f1.state = "AudioTurn"
        recorded == Recorded(f1.outbound) \o Recorded(f2.outbound)
        h1 == WsLog(RecHist(fsm.state, r1, out, f2.state, started), r1, recorded,
                    IF started
                    THEN LastStart(recorded, Len(Recorded(f1.outbound)))
                    ELSE 0)
        waits == fsm.state = "AudioTurn" /\ f2.state = "WaitingForForcedFrame"
    IN  /\ Len(wire) + Len(out) <= cap
        /\ wire' = wire \o Sent(out)
        /\ send_failed' = (send_failed \/ SendFails(out))
        /\ handled_after_failure' = (handled_after_failure \/ send_failed)
        /\ rec' = OnWsAll(OnWsAll(r1, Recorded(f1.outbound)), Recorded(f2.outbound))
        /\ rec_hist' = IF rec.enabled /\ ev.type = "SpeechStart"
                       THEN [h1 EXCEPT !.turn_id = @ + 1] ELSE h1
        /\ fsm' = DrainMessages(f2)
        /\ wait_elapsed' = IF f2.state = "WaitingForForcedFrame" THEN e1 ELSE 0
        /\ turn_log' = IF opened
                       THEN Append(turn_log,
                                   [start |-> Len(wire) + Len(f1.outbound),
                                    pending |-> \/ PendingVideo(fsm)
                                                \/ fsm.frame_batch # <<>>])
                       ELSE turn_log
        /\ tick_in' \in IF waits THEN TickPhases
                        ELSE IF f2.state = "WaitingForForcedFrame" THEN {tick_in}
                        ELSE {0}
        /\ UNCHANGED <<frames_per_turn, ws_open>>

RunnerEvent(ev) == RunnerEventCapped(ev, MaxWire)

VideoFrame(jpeg, frame_id) == RunnerEvent(FrameEv(jpeg, frame_id))
ActivityStart == RunnerEvent(SpeechStartEv)
AudioChunk(bytes) == RunnerEvent(AudioChunkEv(bytes))
ActivityEnd == RunnerEvent(SpeechEndEv)
GenerationComplete == RunnerEvent(ResponseReceivedEv)

\* timeout_checker.tick(): nothing in the branch, the check at the top of the loop
TimeoutTick ==
    /\ tick_in = 0
    /\ LET f2 == CheckForceFrameTimeout(fsm, wait_elapsed)
       IN  /\ Len(wire) + Len(f2.outbound) <= MaxWire
           /\ wire' = wire \o Sent(f2.outbound)
           /\ send_failed' = (send_failed \/ SendFails(f2.outbound))
           /\ rec' = OnWsAll(rec, Recorded(f2.outbound))
           /\ rec_hist' = WsLog(RecHist(fsm.state, rec, f2.outbound, f2.state, FALSE),
                                rec, Recorded(f2.outbound), 0)
           /\ fsm' = DrainMessages(f2)
           /\ wait_elapsed' = IF f2.state = "WaitingForForcedFrame"
                              THEN wait_elapsed ELSE 0
    /\ tick_in' = IF fsm'.state = "WaitingForForcedFrame" THEN TickMs ELSE 0
    /\ UNCHANGED <<turn_log, frames_per_turn, ws_open, handled_after_failure>>

\* the runner sleeps in select! until the next event or tick
AdvanceTime ==
    /\ fsm.state = "WaitingForForcedFrame"
    /\ tick_in >= TimeStep
    /\ tick_in' = tick_in - TimeStep
    /\ wait_elapsed' = Min(wait_elapsed + TimeStep, ElapsedCap)
    /\ UNCHANGED <<fsm, wire, turn_log, frames_per_turn, sinkVars, recVars>>

\* the websocket writer drops the receiver of ws_out_tx
CloseSink ==
    /\ ws_open
    /\ ws_open' = FALSE
    /\ UNCHANGED <<fsm, wire, wait_elapsed, tick_in, turn_log, frames_per_turn,
                   send_failed, handled_after_failure, recVars>>

\* no event arrives during a wait: the ticks up to FORCE_FRAME_TIMEOUT_MS find
\* the timeout not elapsed (TickMs divides it), the first one after it is due
SleepThroughWait ==
    /\ fsm.state = "WaitingForForcedFrame"
    /\ wait_elapsed = 0
    /\ tick_in > 0
    /\ wait_elapsed' = FORCE_FRAME_TIMEOUT_MS + tick_in
    /\ tick_in' = 0
    /\ UNCHANGED <<fsm, wire, turn_log, frames_per_turn, sinkVars, recVars>>

\* =========================================================== specifications

\* ---- the ring used by one thread at a time
NextRing ==
    /\ \/ \E samples \in Frames : PushFrame(samples)
       \/ \E a \in RangeIdx, b \in RangeIdx : GetRange(a, b)
       \/ R_Reset
    /\ UNCHANGED <<boundaryVars, emitterVars, turnVars>>

Parked == BoundaryParked /\ frame_cg = 0

InitRing == RingInit /\ Parked /\ EmitterInit /\ TurnInit

SpecRing == InitRing /\ [][NextRing]_vars

\* ---- a reader thread beside the writer thread: every interleaving of their
\* loads, stores and per-sample copies
NextRingRace ==
    /\ \/ \E samples \in Frames : W_Start(samples)
       \/ W_Copy
       \/ W_StoreWritePos
       \/ W_StoreGlobal
       \/ \E a \in RangeIdx, b \in RangeIdx : R_Start(a, b)
       \/ R_LoadWritePos
       \/ R_Copy
       \/ R_Return
       \/ R_Reset
    /\ UNCHANGED <<boundaryVars, emitterVars, turnVars>>

SpecRingRace == InitRing /\ [][NextRingRace]_vars


\* ---- the boundary FSM fed frame by frame, ASR workers sending proposals
NextBoundary ==
    /\ \/ \E voiced \in BOOLEAN, gap \in FrameGapsMs : ProcessFrame(voiced, gap)
       \/ \E offset \in ProposalOffsets, text \in ProposalTexts :
              AsrPropose(offset, text)
    /\ UNCHANGED <<ringVars, emitterVars, turnVars, asrVars>>

InitBoundary == RingInit /\ BoundaryInit /\ EmitterInit /\ TurnInit

SpecBoundary == InitBoundary /\ [][NextBoundary]_vars

\* ---- the boundary FSM with at most one proposal waiting when a frame arrives
NextOpenClose ==
    /\ \/ \E voiced \in BOOLEAN, gap \in FrameGapsMs : ProcessFrame(voiced, gap)
       \/ /\ asr_proposals = <<>>
          /\ \E offset \in ProposalOffsets, text \in ProposalTexts :
                 AsrPropose(offset, text)
    /\ UNCHANGED <<ringVars, emitterVars, turnVars, asrVars>>

SpecOpenClose == InitBoundary /\ [][NextOpenClose]_vars

\* ---- the boundary FSM fed in real time: one frame of FrameSamples samples
\*      every FrameMs milliseconds

NextRealTime ==
    /\ \/ \E voiced \in BOOLEAN : ProcessFrame(voiced, FrameMs)
       \/ /\ asr_proposals = <<>>
          /\ \E offset \in ProposalOffsets, text \in ProposalTexts :
                 AsrPropose(offset, text)
    /\ UNCHANGED <<ringVars, emitterVars, turnVars, asrVars>>

SpecRealTime == InitBoundary /\ [][NextRealTime]_vars

\* ---- the boundary FSM fed in real time, with poll_asr and the workers; only
\*      the runs in which 0.75 * score stays exact are followed

RealTimeFrame(cap) ==
    /\ (voiced_score * 3) % 4 = 0
    /\ \E voiced \in BOOLEAN : ProcessFrameCapped(voiced, FrameMs, cap)
    /\ stale_close' = (stale_close \/ StaleAccepted)
    /\ proposal_segs' = <<>>
    /\ UNCHANGED <<asr_requests, last_asr_submit_idx>>

NextStale ==
    /\ \/ RealTimeFrame(MaxStaleFrames)
       \/ PollAsr
       \/ \E offset \in ClauseOffsets : WorkerPropose(offset, T_Sentence)
    /\ UNCHANGED <<ringVars, emitterVars, turnVars, segVars>>

SpecStale == InitBoundary /\ [][NextStale]_vars

\* ---- the same with workers whose transcripts are any of ClauseTexts
NextWorker ==
    /\ \/ RealTimeFrame(MaxFrames)
       \/ PollAsr
       \/ \E offset \in ClauseOffsets, text \in ClauseTexts : WorkerPropose(offset, text)
    /\ UNCHANGED <<ringVars, emitterVars, turnVars, segVars>>

SpecWorker == InitBoundary /\ [][NextWorker]_vars

\* ---- continuous speech fed in a burst (no time passes between the frames),
\*      poll_asr called after any of them, the workers as slow as they like;
\*      the score is past its exact range here and is not read while Recording
MaxPoolFrames == 42

NextPool ==
    /\ \/ /\ ProcessFrameCapped(TRUE, 0, MaxPoolFrames)
          /\ UNCHANGED asrVars
       \/ /\ PollAsrCapped(MaxRequests + 1)
          /\ UNCHANGED segVars
       \/ /\ \E offset \in ClauseOffsets : WorkerPropose(offset, T_Short)
          /\ UNCHANGED segVars
    /\ UNCHANGED <<ringVars, emitterVars, turnVars>>

SpecPool == InitBoundary /\ [][NextPool]_vars

\* ---- the boundary FSM with proposals of any of ClauseTexts on its channel
NextClause ==
    /\ \/ \E voiced \in BOOLEAN, gap \in FrameGapsMs : ProcessFrame(voiced, gap)
       \/ /\ asr_proposals = <<>>
          /\ \E offset \in ProposalOffsets, text \in ClauseTexts :
                 AsrPropose(offset, text)
    /\ UNCHANGED <<ringVars, emitterVars, turnVars, asrVars>>

SpecClause == InitBoundary /\ [][NextClause]_vars

\* ---- the emitter on the segmenter's thread, which also pushes the frames
NextEmitter ==
    /\ \/ \E kind \in EventKinds, len \in EventLens, seg_id \in SegIds :
              ProcessBoundaryEvent(kind, len, seg_id)
       \/ \E seg_id \in SegIds : AddTranscript(seg_id, T_Short)
       \/ PopSegment
       \/ EmitterTick
       \/ \E samples \in EmitterFrames : EmitterPush(samples)
    /\ UNCHANGED <<boundaryVars, turnVars>>

InitEmitter == RingInit /\ Parked /\ EmitterInit /\ TurnInit

SpecEmitter == InitEmitter /\ [][NextEmitter]_vars

\* ---- the emitter built with asr_timeout_ms = 0 (as test_segment_emitter_ordering
\*      builds it) or with the scaled default
TimeoutsMs == {0, AsrTimeoutMs}

InitHold ==
    /\ RingInit /\ Parked /\ EmitterNew /\ TurnInit
    /\ asr_timeout_ms \in TimeoutsMs

\* every event is one sample long, so a range is lost only to a later push
NextHold ==
    /\ \/ \E kind \in EventKinds, seg_id \in SegIds :
              ProcessBoundaryEvent(kind, 1, seg_id)
       \/ \E seg_id \in SegIds : AddTranscript(seg_id, T_Short)
       \/ PopSegment
       \/ EmitterTick
       \/ \E samples \in EmitterFrames : EmitterPush(samples)
    /\ UNCHANGED <<boundaryVars, turnVars>>

SpecHold == InitHold /\ [][NextHold]_vars

\* ---- the segmenter fed chunk by chunk in real time, with or without an
\*      outgoing sender, while time passes for the emitter
NextChunk ==
    /\ \/ \E len \in ChunkLens, voiced \in BOOLEAN, polls \in BOOLEAN :
              PushChunk(len, voiced, polls)
       \/ /\ EmitterTick
          /\ UNCHANGED boundaryVars
    /\ UNCHANGED <<ringVars, turnVars>>

InitChunk ==
    /\ RingInit /\ EmitterInit /\ TurnInit
    /\ frame_cg = 0
    /\ bstate = Idle
    /\ voiced_score = 0
    /\ next_seg_id = 1
    /\ boundary_events = <<>>
    /\ asr_proposals = <<>>
    /\ frames_fed = 0
    /\ sent_in_frame = 0
    /\ asr_requests = <<>>
    /\ last_asr_submit_idx = None
    /\ proposal_segs = <<>>
    /\ stale_close = FALSE
    /\ SegmenterParked
    /\ \E has_outgoing \in BOOLEAN : segmenter = SegmenterNew(has_outgoing)

SpecChunk == InitChunk /\ [][NextChunk]_vars

\* ---- the turn runner: events of the three channels, ticks, time
NextTurn ==
    /\ \/ \E jpeg \in Jpegs, frame_id \in Hashes : VideoFrame(jpeg, frame_id)
       \/ ActivityStart
       \/ \E bytes \in Pcms : AudioChunk(bytes)
       \/ ActivityEnd
       \/ GenerationComplete
       \/ TimeoutTick
       \/ AdvanceTime
    /\ UNCHANGED <<ringVars, boundaryVars, emitterVars, dup_frame, lateVars>>

InitTurn == RingInit /\ Parked /\ EmitterInit /\ TurnInit

SpecTurn == InitTurn /\ [][NextTurn]_vars

\* ---- video only: no speech events, any FRAMES_PER_TURN
NextFrames ==
    /\ \/ \E jpeg \in TwoJpegs, frame_id \in FrameIds : VideoFrame(jpeg, frame_id)
       \/ GenerationComplete
       \/ TimeoutTick
    /\ UNCHANGED <<ringVars, boundaryVars, emitterVars, dup_frame, lateVars>>

InitFrames ==
    /\ rec = TurnRecorderNew(FALSE)
    /\ RingInit /\ Parked /\ EmitterInit /\ RunnerInit
    /\ frames_per_turn \in 1..MaxPerTurn

SpecFrames == InitFrames /\ [][NextFrames]_vars

\* ---- the turn runner with frames and chunks that differ in their bytes; a
\*      wait is ended by an event or slept through
NextSpeech ==
    /\ \/ \E jpeg \in TwoJpegs, frame_id \in Hashes : VideoFrame(jpeg, frame_id)
       \/ ActivityStart
       \/ \E bytes \in TwoPcms : AudioChunk(bytes)
       \/ ActivityEnd
       \/ GenerationComplete
       \/ TimeoutTick
       \/ SleepThroughWait
    /\ Len(wire') <= MaxWireSpeech
    /\ UNCHANGED <<ringVars, boundaryVars, emitterVars, dup_frame, lateVars>>

SpecSpeech == InitTurn /\ [][NextSpeech]_vars

\* ---- the turn runner on runs long enough for a video turn, an audio turn
\*      that interrupts it, and a second audio turn that starts during the wait
MaxWireAbort == 9

NextAbort ==
    /\ \/ \E jpeg \in TwoJpegs, frame_id \in Hashes :
              RunnerEventCapped(FrameEv(jpeg, frame_id), MaxWireAbort)
       \/ RunnerEventCapped(SpeechStartEv, MaxWireAbort)
       \/ RunnerEventCapped(SpeechEndEv, MaxWireAbort)
       \/ RunnerEventCapped(ResponseReceivedEv, MaxWireAbort)
       \/ SleepThroughWait
       \/ TimeoutTick
    /\ UNCHANGED <<ringVars, boundaryVars, emitterVars, dup_frame, lateVars>>

SpecAbort == InitTurn /\ [][NextAbort]_vars

\* ---- run() while its channels close. media_senders: a Sender of the media
\*      broadcast other than the one run() keeps in its FSM is alive;
\*      outgoing_open, ws_in_open: a sender of that channel is alive.
MaxWireShutdown == 4

\* the branches of select! that are not disabled: a tick() always completes and
\* `_` matches it; recv() on a channel whose senders are gone completes with
\* None, which disables the branch; media_rx.recv() never completes with
\* Err(Closed) because run() holds a Sender itself
SelectBranches ==
    {"timeout_checker", "stats_ticker", "media_rx"}
    \cup (IF runner.outgoing_open THEN {"outgoing_rx"} ELSE {})
    \cup (IF runner.ws_in_open THEN {"ws_in_rx"} ELSE {})

\* one pass of the loop: the branch select! runs, or its else
RunnerPass ==
    /\ ~runner.returned
    /\ IF SelectBranches = {}
       THEN /\ runner' = [runner EXCEPT !.returned = TRUE]
            /\ UNCHANGED <<fsm, wire, wait_elapsed, tick_in, turn_log,
                           frames_per_turn, sinkVars, recVars>>
       ELSE /\ \E branch \in SelectBranches :
                 CASE branch = "media_rx" ->
                        /\ runner.media_senders
                        /\ \E jpeg \in Jpegs, frame_id \in Hashes :
                               RunnerEventCapped(FrameEv(jpeg, frame_id),
                                                 MaxWireShutdown)
                   [] branch = "outgoing_rx" ->
                        \E ev \in {SpeechStartEv, SpeechEndEv}
                                  \cup {AudioChunkEv(pcm) : pcm \in Pcms} :
                            RunnerEventCapped(ev, MaxWireShutdown)
                   [] branch = "ws_in_rx" ->
                        RunnerEventCapped(ResponseReceivedEv, MaxWireShutdown)
                   [] branch = "timeout_checker" ->
                        TimeoutTick \/ AdvanceTime
                   [] branch = "stats_ticker" ->
                        UNCHANGED <<fsm, wire, wait_elapsed, tick_in, turn_log,
                                    frames_per_turn, sinkVars, recVars>>
            /\ UNCHANGED runner

\* the last sender of a channel is dropped
DropSenders(chan) ==
    /\ runner[chan]
    /\ runner' = [runner EXCEPT ![chan] = FALSE]
    /\ UNCHANGED <<fsm, wire, wait_elapsed, tick_in, turn_log, frames_per_turn,
                   sinkVars, recVars>>

OtherTasksIdle ==
    UNCHANGED <<ringVars, boundaryVars, emitterVars, dup_frame, last_event, mainVars>>

RunnerLoop == RunnerPass /\ OtherTasksIdle

NextShutdown ==
    \/ RunnerLoop
    \/ /\ \E chan \in {"media_senders", "outgoing_open", "ws_in_open"} :
              DropSenders(chan)
       /\ OtherTasksIdle

\* the runner's task is scheduled as long as it has not returned
SpecShutdown == InitTurn /\ [][NextShutdown]_vars /\ WF_vars(RunnerLoop)

\* ---- the FSM by itself: on_event with any event in any order, and
\*      check_force_frame_timeout before or after the timeout, each followed by
\*      drain_messages
FsmEvents ==
    {FrameEv(jpeg, hash) : jpeg \in Jpegs, hash \in Hashes}
    \cup {AudioChunkEv(pcm) : pcm \in Pcms}
    \cup {SpeechStartEv, SpeechEndEv, ResponseReceivedEv}

FsmOnEvent(ev) ==
    LET f1 == OnEvent(fsm, ev)
    IN  /\ Len(wire) + Len(f1.outbound) <= MaxWire
        /\ wire' = wire \o f1.outbound
        /\ fsm' = DrainMessages(f1)
        /\ last_event' = Some(ev)
        /\ UNCHANGED <<wait_elapsed, tick_in, turn_log, frames_per_turn, sinkVars,
                       recVars, dup_frame>>

FsmCheckTimeout(elapsed) ==
    LET f1 == CheckForceFrameTimeout(fsm, elapsed)
    IN  /\ Len(wire) + Len(f1.outbound) <= MaxWire
        /\ wire' = wire \o f1.outbound
        /\ fsm' = DrainMessages(f1)
        /\ last_event' = None
        /\ UNCHANGED <<wait_elapsed, tick_in, turn_log, frames_per_turn, sinkVars,
                       recVars, dup_frame>>

NextFsm ==
    /\ \/ \E ev \in FsmEvents : FsmOnEvent(ev)
       \/ \E elapsed \in {0, FORCE_FRAME_TIMEOUT_MS + 1} : FsmCheckTimeout(elapsed)
    /\ UNCHANGED <<ringVars, boundaryVars, emitterVars, runner, mainVars>>

SpecFsm == InitTurn /\ [][NextFsm]_vars

\* ---- the turn runner with recording enabled; outgoing_rx carries what the
\*      segmenter sends: ActivityStart, then chunks, then ActivityEnd, so a turn
\*      of the segmenter is open exactly while the FSM is in AudioTurn
NextRec ==
    /\ \/ \E jpeg \in Jpegs, frame_id \in Hashes : VideoFrame(jpeg, frame_id)
       \/ fsm.state # "AudioTurn" /\ ActivityStart
       \/ fsm.state = "AudioTurn" /\ \E bytes \in Pcms : AudioChunk(bytes)
       \/ fsm.state = "AudioTurn" /\ ActivityEnd
       \/ GenerationComplete
       \/ TimeoutTick
       \/ SleepThroughWait
    /\ Len(wire') <= MaxWireSpeech
    /\ UNCHANGED <<ringVars, boundaryVars, emitterVars, dup_frame, lateVars>>

InitRec ==
    /\ RingInit /\ Parked /\ EmitterInit /\ RunnerInit
    /\ frames_per_turn = FRAMES_PER_TURN
    /\ rec = TurnRecorderNew(TRUE)

SpecRec == InitRec /\ [][NextRec]_vars

\* ---- the turn runner of SpecSpeech, remembering the duplicate Frame it has
\*      just handled
IsDuplicate(f, hash) ==
    f.state \in {"Idle", "FrameBatch", "AudioTurn"} /\ hash = f.last_frame_hash

NextDup ==
    /\ \/ \E jpeg \in TwoJpegs, frame_id \in Hashes :
             /\ VideoFrame(jpeg, frame_id)
             /\ dup_frame' = IF IsDuplicate(fsm, frame_id) THEN Some(jpeg) ELSE None
       \/ /\ \/ ActivityStart
             \/ \E bytes \in TwoPcms : AudioChunk(bytes)
             \/ ActivityEnd
             \/ GenerationComplete
             \/ TimeoutTick
             \/ SleepThroughWait
          /\ dup_frame' = None
    /\ Len(wire') <= MaxWireSpeech
    /\ UNCHANGED <<ringVars, boundaryVars, emitterVars, lateVars>>

SpecDup == InitTurn /\ [][NextDup]_vars

\* ---- the turn runner whose sink can close; the run is followed one event
\*      past the first failed send
NextSink ==
    /\ ~handled_after_failure
    /\ \/ \E jpeg \in Jpegs, frame_id \in Hashes : VideoFrame(jpeg, frame_id)
       \/ ActivityStart
       \/ \E bytes \in Pcms : AudioChunk(bytes)
       \/ ActivityEnd
       \/ GenerationComplete
       \/ TimeoutTick
       \/ SleepThroughWait
       \/ CloseSink
    /\ Len(wire') <= MaxWireSpeech
    /\ UNCHANGED <<ringVars, boundaryVars, emitterVars, dup_frame, lateVars>>

SpecSink == InitTurn /\ [][NextSink]_vars

\* ------------------------------------------------------------ ring: claims

\* C1: a get_range(a..b) that ran with no push beside it, with
\* a >= max(0, current_global - Capacity) and b <= current_global, returns
\* exactly the samples pushed at global indices a..b-1.
C1_RangeExact ==
    (r.pc = "done" /\ r.clean
       /\ r.a >= SatSub(r.len0, Capacity) /\ r.b <= r.len0)
    => r.result = Some(PushedAt(r.a, r.b))

\* C1 witness: a full window read back with two different samples in it, after
\* the storage wrapped around more than once.
C1_Witness ==
    /\ r.pc = "done" /\ r.clean /\ r.result.some
    /\ r.len0 > 2 * Capacity
    /\ r.a = r.len0 - Capacity /\ r.b = r.len0
    /\ r.result.val[1] # r.result.val[Capacity]

\* C2: a get_range(a..b) that ran with no push beside it returns None if and
\* only if a < max(0, current_global - Capacity) or b > current_global.
C2_UnavailableIff ==
    (r.pc = "done" /\ r.clean)
    => ((r.result = None)
          <=> (r.a < SatSub(r.len0, Capacity) \/ r.b > r.len0))

\* C2 witness: a range that was written and has been overwritten is refused.
C2_Witness ==
    /\ r.pc = "done" /\ r.clean /\ r.result = None
    /\ r.a < r.b /\ r.b <= r.len0
    /\ r.a < r.len0 - Capacity

\* C3: a get_range that ran beside push_frame returns None or exactly the
\* samples pushed at the requested global indices.
C3_RaceNeverGarbled ==
    (r.pc = "done" /\ r.result.some) => r.result.val = PushedAt(r.a, r.b)

\* C4: push_frame returns the value global_idx had before the call and leaves
\* global_idx at that value plus the number of samples: global_idx is the
\* number of samples pushed so far, and the samples of the last push got the
\* indices ret..ret+len-1, which are the last len indices.
C4_PushIndex ==
    /\ global_idx = Len(pushed)
    /\ last_push.some => last_push.val.ret + last_push.val.len = Len(pushed)

\* C4 witness: a non-empty push that was not the first one.
C4_Witness ==
    /\ last_push.some /\ last_push.val.ret > 0 /\ last_push.val.len > 0
    /\ global_idx = MaxGlobal

\* --------------------------------------------------------- boundary: claims

LastEvent == boundary_events[Len(boundary_events)]

\* C5: one call of process_frame sends at most one boundary event, whatever
\* the state and however many proposals are queued.
C5_OneEventPerFrame == sent_in_frame <= 1

\* C5 witness: a call that received a valid in-range proposal, sent its
\* AsrClose, and reopened a segment from Committing before returning.
C5_Witness ==
    /\ sent_in_frame = 1
    /\ LastEvent.kind = "AsrClose"
    /\ bstate.tag = "Recording"
    /\ bstate.last_voice_idx = frame_cg - FrameSamples
    /\ bstate.seg_start_idx = SatSub(bstate.last_voice_idx, PreRollReopen)

\* ---------------------------------------------------------- emitter: claims

\* C6: the ids the emitter has emitted or skipped so far are exactly
\* 1..next_emit_id-1, each once and in ascending order, whatever the order in
\* which process_boundary_event received them; the segments waiting in the
\* output queue are emitted ones, in strictly ascending id order.
C6_AscendingNoGap ==
    /\ Len(emit_log) = next_emit_id - 1
    /\ \A i \in 1..Len(emit_log) : emit_log[i].id = i
    /\ \A i \in 1..Len(output_queue) :
         /\ output_queue[i].id \in 1..Len(emit_log)
         /\ emit_log[output_queue[i].id].emitted
         /\ \A j \in 1..Len(output_queue) :
              i < j => output_queue[i].id < output_queue[j].id

\* C6 witness: commit 2 was received before commit 1; id 1 was skipped (its
\* range was unavailable) and id 2 was emitted after it.
C6_Witness ==
    /\ recv_log = <<2, 1>>
    /\ Len(emit_log) = 2
    /\ ~emit_log[1].emitted
    /\ emit_log[2].emitted
    /\ next_emit_id = 3

\* ------------------------------------------------------------- turn: claims

HasKey(m, key) == key \in DOMAIN m

\* activityStart minus activityEnd messages among the first n of the wire
Depth(n) ==
    Cardinality({i \in 1..n : HasKey(wire[i], "activityStart")})
    - Cardinality({i \in 1..n : HasKey(wire[i], "activityEnd")})

\* C7: on the wire activityStart and activityEnd alternate, beginning with
\* activityStart (after every prefix at most one turn is open and none is
\* closed that was not opened), and every audio and every video message lies
\* inside an open turn.
C7_TurnsBracketed ==
    \A n \in 1..Len(wire) :
        /\ Depth(n) \in {0, 1}
        /\ (HasKey(wire[n], "audio") \/ HasKey(wire[n], "video")) => Depth(n) = 1

\* C7 witness: two turns were closed, the second by a SpeechStart during the
\* wait, which opened the third; audio and video were sent.
C7_Witness ==
    /\ fsm.state = "AudioTurn"
    /\ Depth(Len(wire)) = 1
    /\ Cardinality({i \in 1..Len(wire) : HasKey(wire[i], "activityEnd")}) >= 2
    /\ \E i \in 1..Len(wire) : HasKey(wire[i], "audio")
    /\ \E i \in 1..Len(wire) : HasKey(wire[i], "video")
    /\ HasKey(wire[Len(wire)], "activityStart")
    /\ HasKey(wire[Len(wire) - 1], "activityEnd")

\* setup messages with this activityHandling among wire[lo..hi]
SetupCount(mode, lo, hi) ==
    Cardinality({i \in lo..hi :
                    /\ HasKey(wire[i], "setup")
                    /\ wire[i].setup.realtimeInputConfig.activityHandling = mode})

\* the last activityEnd before position s (0 if none), the first after it
\* (Len(wire) + 1 if none)
PrevEnd(s) ==
    LET E == {i \in 1..(s - 1) : HasKey(wire[i], "activityEnd")}
    IN  IF E = {} THEN 0 ELSE CHOOSE i \in E : \A j \in E : j <= i
NextEnd(s) ==
    LET E == {i \in (s + 1)..Len(wire) : HasKey(wire[i], "activityEnd")}
    IN  IF E = {} THEN Len(wire) + 1 ELSE CHOOSE i \in E : \A j \in E : i <= j

WireKeys == {"activityStart", "activityEnd", "audio", "video", "setup"}

\* C10: every message on the wire is an object with exactly one top-level key,
\* one of activityStart, activityEnd, audio, video, setup; none has an audio or
\* video payload beside an activityStart or activityEnd marker.
C10_OneTopLevelKey ==
    \A i \in 1..Len(wire) :
        /\ Cardinality(DOMAIN wire[i]) = 1
        /\ DOMAIN wire[i] \subseteq WireKeys
        /\ ~ /\ DOMAIN wire[i] \cap {"audio", "video"} # {}
             /\ DOMAIN wire[i] \cap {"activityStart", "activityEnd"} # {}

\* C10 witness: all five kinds of message have been sent.
C10_Witness ==
    \A key \in WireKeys : \E i \in 1..Len(wire) : HasKey(wire[i], key)

\* the video messages of a batch, in the batch's order
VideoMsgs(frames) == [i \in 1..Len(frames) |-> VideoMsg(frames[i])]

\* what a Frame event does while no speech event has arrived
C11_FrameEffect(jpeg, frame_id) ==
    IF frame_id = fsm.last_frame_hash
    THEN /\ wire' = wire
         /\ fsm' = fsm
    ELSE IF Len(fsm.frame_batch) + 1 < frames_per_turn
    THEN /\ wire' = wire
         /\ fsm'.state = "FrameBatch"
         /\ fsm'.frame_batch = Append(fsm.frame_batch, jpeg)
         /\ fsm'.pending_turn_types = fsm.pending_turn_types
    ELSE /\ wire' = wire \o <<ActivityStartMsg>>
                         \o VideoMsgs(Append(fsm.frame_batch, jpeg))
                         \o <<ActivityEndMsg>>
         /\ fsm'.state = "Idle"
         /\ fsm'.frame_batch = <<>>
         /\ fsm'.pending_turn_types = Append(fsm.pending_turn_types, TRUE)

\* C11: with no speech events and FRAMES_PER_TURN = N >= 1, a frame whose hash
\* equals last_frame_hash changes nothing; a frame with a new hash that is not
\* yet the N-th of its batch is collected and nothing is sent; the N-th sends
\* activityStart, one video per collected frame in arrival order, activityEnd,
\* leaves the FSM Idle with an empty batch and records one pending video turn.
\* The batch is never as long as N between events.
C11_BatchOfN ==
    [][ /\ \A jpeg \in TwoJpegs, frame_id \in FrameIds :
              VideoFrame(jpeg, frame_id) => C11_FrameEffect(jpeg, frame_id)
        /\ Len(fsm.frame_batch) < frames_per_turn
        /\ fsm.state = "Idle" <=> fsm.frame_batch = <<>> ]_vars

\* C11 witness: built with N = 3, the third new frame sent the three frames in
\* their order of arrival.
C11_Witness ==
    /\ frames_per_turn = 3
    /\ wire = << ActivityStartMsg, VideoMsg(<<255, 217>>), VideoMsg(<<255, 216>>),
                 VideoMsg(<<255, 217>>), ActivityEndMsg >>
    /\ fsm.state = "Idle"
    /\ fsm.frame_batch = <<>>
    /\ fsm.pending_turn_types = <<TRUE>>

\* the audio turn in progress was opened by SpeechStart in Idle with no video
\* turn pending: it is the last of turn_log and its activityStart is the last
\* on the wire
InPlainTurn ==
    /\ fsm.state \in {"AudioTurn", "WaitingForForcedFrame"}
    /\ turn_log # <<>>
    /\ ~turn_log[Len(turn_log)].pending
    /\ \A i \in (turn_log[Len(turn_log)].start + 1)..Len(wire) :
           ~HasKey(wire[i], "activityStart")

\* C12: a SpeechStart in Idle with no video turn pending sends activityStart
\* alone; in that turn every AudioChunk appends its audio message and every
\* Frame with a new hash its video message (so the wire keeps the order of
\* arrival), SpeechEnd sends nothing on the wire and one ForceCaptureRequest,
\* and a Frame arriving during the wait appends that frame's video and
\* activityEnd. A ForceCaptureRequest is sent by nothing but that SpeechEnd.
C12_PlainSpeechTurn ==
    [][ /\ (ActivityStart /\ fsm.state = "Idle" /\ ~PendingVideo(fsm)) =>
              /\ wire' = Append(wire, ActivityStartMsg)
              /\ fsm'.state = "AudioTurn"
        /\ (InPlainTurn /\ fsm.state = "AudioTurn") =>
              /\ \A bytes \in TwoPcms : AudioChunk(bytes) =>
                    /\ wire' = Append(wire, AudioMsg(bytes))
                    /\ fsm'.state = "AudioTurn"
              /\ \A jpeg \in TwoJpegs, frame_id \in Hashes :
                    VideoFrame(jpeg, frame_id) =>
                       /\ wire' = IF frame_id # fsm.last_frame_hash
                                  THEN Append(wire, VideoMsg(jpeg)) ELSE wire
                       /\ fsm'.state = "AudioTurn"
              /\ ActivityEnd =>
                    /\ wire' = wire
                    /\ fsm'.media_tx = fsm.media_tx + 1
                    /\ fsm'.state = "WaitingForForcedFrame"
        /\ (InPlainTurn /\ fsm.state = "WaitingForForcedFrame") =>
              \A jpeg \in TwoJpegs, frame_id \in Hashes :
                  VideoFrame(jpeg, frame_id) =>
                     /\ wire' = wire \o <<VideoMsg(jpeg), ActivityEndMsg>>
                     /\ fsm'.state = "Idle"
        /\ fsm'.media_tx # fsm.media_tx =>
              /\ fsm.state = "AudioTurn"
              /\ fsm'.state = "WaitingForForcedFrame"
              /\ fsm'.media_tx = fsm.media_tx + 1 ]_vars

\* C12 witness: SpeechStart, chunk, frame, chunk, SpeechEnd, frame gave the
\* wire those messages in that order, and one ForceCaptureRequest.
C12_Witness ==
    /\ wire = << ActivityStartMsg, AudioMsg(<<2, 0>>), VideoMsg(<<255, 217>>),
                 AudioMsg(<<1, 0>>), VideoMsg(<<255, 216>>), ActivityEndMsg >>
    /\ fsm.media_tx = 1
    /\ fsm.state = "Idle"
    /\ turn_log = <<[start |-> 1, pending |-> FALSE]>>

\* what a timeout that has elapsed sends: the cached frame if there is one, the
\* restoring setup if it is owed, activityEnd
TimeoutMsgs ==
    (IF fsm.last_frame_data.some
     THEN <<VideoMsg(fsm.last_frame_data.val)>> ELSE <<>>)
    \o (IF fsm.need_activity_reset THEN <<SetupMsg("NO_INTERRUPTION")>> ELSE <<>>)
    \o <<ActivityEndMsg>>

\* C13: a timeout check (at a tick, or at the top of the loop after an event
\* that WaitingForForcedFrame ignores) made in WaitingForForcedFrame more than
\* FORCE_FRAME_TIMEOUT_MS after the wait started sends the cached frame's video
\* if a frame is cached, the restoring setup if owed, and activityEnd, leaves
\* the FSM Idle with nothing owed and appends one audio turn to the pending
\* turns; a check at a tick in any other state or not later than that changes
\* nothing.
C13_TimeoutEffect ==
    [][ /\ (/\ fsm.state = "WaitingForForcedFrame"
            /\ wait_elapsed > FORCE_FRAME_TIMEOUT_MS
            /\ TimeoutTick \/ ActivityEnd \/ \E bytes \in Pcms : AudioChunk(bytes)) =>
              /\ wire' = wire \o TimeoutMsgs
              /\ fsm'.state = "Idle"
              /\ ~fsm'.need_activity_reset
              /\ fsm'.pending_turn_types = Append(fsm.pending_turn_types, FALSE)
              /\ fsm'.turn_end_times = Append(fsm.turn_end_times, FALSE)
              /\ fsm'.last_frame_data = fsm.last_frame_data
              /\ fsm'.media_tx = fsm.media_tx
        /\ (/\ ~ /\ fsm.state = "WaitingForForcedFrame"
                 /\ wait_elapsed > FORCE_FRAME_TIMEOUT_MS
            /\ TimeoutTick) =>
              /\ wire' = wire
              /\ fsm' = fsm ]_vars

\* C13 witness: an audio turn that interrupted a pending video turn was ended
\* with the cached frame, the restoring setup and activityEnd.
C13_Witness ==
    /\ fsm.state = "Idle"
    /\ fsm.pending_turn_types = <<TRUE, FALSE>>
    /\ wire = << ActivityStartMsg, VideoMsg(<<255, 216>>), ActivityEndMsg,
                 SetupMsg("START_OF_ACTIVITY_INTERRUPTS"), ActivityStartMsg,
                 VideoMsg(<<255, 216>>), SetupMsg("NO_INTERRUPTION"),
                 ActivityEndMsg >>

\* C14 (as stated): once a send to the sink has failed the runner has left its
\* loop: it handles no further media, segmenter or inbound event.
C14_StopsAfterFailedSend == send_failed => ~handled_after_failure

\* C15 (as stated): with recording enabled, while an audio turn is open on the
\* wire the recorder's current directory is the one Outgoing::ActivityStart
\* opened for that turn, and every video message of an audio turn was written
\* into that turn's directory.
C15_AudioDirHeld ==
    rec.enabled =>
        /\ InAudioTurn(fsm.state) =>
               rec_hist.turn_dir.some /\ rec.cur_dir = rec_hist.turn_dir
        /\ \A p \in rec_hist.filed : p[1] = p[2]

\* C16 (as stated): right after a Frame event whose hash equals last_frame_hash
\* was handled in Idle, FrameBatch or AudioTurn, the cached last-frame bytes are
\* the bytes of that event.
C16_DuplicateRefreshesCache ==
    dup_frame.some => fsm.last_frame_data = Some(dup_frame.val)

\* the closing conditions of a frame handled in Recording, from the state before
SilenceReached(voiced) ==
    LET last_voice == IF voiced THEN frame_cg ELSE bstate.last_voice_idx
    IN  ((frame_cg + FrameSamples - last_voice) * 1000) \div 16000 >= CloseSilenceMs
MaxLenReached(gap) == bstate.elapsed + gap >= MaxTurnMs

\* C17 (as stated): a frame handled in Recording on which the maximum turn
\* length is reached emits MaxLenClose, and one on which only the silence
\* threshold is reached emits SilenceClose, whatever ASR proposals are queued.
C17_ClosePriority ==
    [][\A voiced \in BOOLEAN, gap \in FrameGapsMs :
          (ProcessFrame(voiced, gap) /\ bstate.tag = "Recording"
               /\ (MaxLenReached(gap) \/ SilenceReached(voiced)))
          => /\ Len(boundary_events') > Len(boundary_events)
             /\ boundary_events'[Len(boundary_events) + 1].kind =
                    IF MaxLenReached(gap) THEN "MaxLenClose" ELSE "SilenceClose"]_vars

\* the score after n voiced frames from score 0: 4 * (1 - 0.75^n); no other n
\* frames reach it
AllVoicedScore(n) == 4 * ScoreUnit - (3 ^ n) * (ScoreUnit \div (4 ^ (n - 1)))

\* C18: a frame handled in Idle opens a segment exactly when the score after the
\* frame (0.75 * score, plus 1 for a voiced frame) is at least 3.0: the state
\* becomes Recording with seg_start_idx = max(0, start_idx - 8000) and
\* last_voice_idx = start_idx; otherwise it stays Idle; no event is sent either
\* way. While only voiced frames have been fed and nothing was sent, the FSM is
\* in Recording from the frame on which the score first reaches 3.0.
C18_OpensAtScore ==
    /\ [](/\ frames_fed >= 1
          /\ voiced_score = AllVoicedScore(frames_fed)
          /\ voiced_score >= 3 * ScoreUnit
          /\ boundary_events = <<>>
          => bstate.tag = "Recording")
    /\ [][\A voiced \in BOOLEAN, gap \in FrameGapsMs :
            (bstate.tag = "Idle" /\ frames_fed' # frames_fed
                 /\ ProcessFrame(voiced, gap))
            => LET score == (voiced_score * 3) \div 4
                            + (IF voiced THEN ScoreUnit ELSE 0)
               IN  /\ voiced_score' = score
                   /\ boundary_events' = boundary_events
                   /\ bstate' = IF score >= 3 * ScoreUnit
                                THEN [tag |-> "Recording",
                                      seg_start_idx |-> Max(0, frame_cg - 8000),
                                      last_voice_idx |-> frame_cg,
                                      elapsed |-> 0]
                                ELSE bstate]_vars

\* C18 witness: every frame of the run was voiced, the segment opened with its
\* start clamped at 0 and is still open
C18_Witness ==
    /\ frames_fed = MaxFrames
    /\ voiced_score = AllVoicedScore(MaxFrames)
    /\ boundary_events = <<>>
    /\ bstate.tag = "Recording"
    /\ bstate.seg_start_idx = 0
    /\ bstate.last_voice_idx = frame_cg - FrameSamples

\* C19 (as stated): from Idle with score 0 the FSM is not in Recording before
\* the open_voiced_frames-th frame has been handled.
C19_OpensAtConfiguredFrame ==
    frames_fed < OpenVoicedFrames => bstate.tag # "Recording"

\* the frame handled by this step sent an AsrClose
AsrClosed ==
    /\ Len(boundary_events') > Len(boundary_events)
    /\ boundary_events'[Len(boundary_events) + 1].kind = "AsrClose"

\* C20: a frame handled in Recording, with the maximum turn length not reached
\* and no AsrClose sent, closes the segment exactly when the silence since the
\* last voiced frame (this one if it is voiced) has reached close_silence_ms:
\* it sends SilenceClose(seg_start_idx, current_global), goes Idle and resets
\* the score; otherwise it sends nothing and stays in Recording with the same
\* seg_start_idx and started_at.
C20_SilenceClose ==
    [][\A voiced \in BOOLEAN, gap \in FrameGapsMs :
          (bstate.tag = "Recording" /\ frames_fed' # frames_fed
               /\ ~MaxLenReached(gap) /\ ~AsrClosed /\ ProcessFrame(voiced, gap))
          => LET current_global == frame_cg + FrameSamples
                 last_voice == IF voiced THEN frame_cg ELSE bstate.last_voice_idx
                 silence_ms == ((current_global - last_voice) * 1000) \div 16000
             IN  IF silence_ms >= CloseSilenceMs
                 THEN /\ boundary_events' =
                            Append(boundary_events,
                                   [kind |-> "SilenceClose",
                                    start_idx |-> bstate.seg_start_idx,
                                    end_idx |-> current_global,
                                    text |-> <<>>])
                      /\ bstate'.tag = "Idle"
                      /\ voiced_score' = 0
                 ELSE /\ boundary_events' = boundary_events
                      /\ bstate' = [tag |-> "Recording",
                                    seg_start_idx |-> bstate.seg_start_idx,
                                    last_voice_idx |-> last_voice,
                                    elapsed |-> bstate.elapsed + gap]]_vars

\* C20 witness: a segment with an unclamped start was closed by silence, with
\* rejected proposals queued or none
C20_Witness ==
    /\ sent_in_frame = 1
    /\ LastEvent.kind = "SilenceClose"
    /\ LastEvent.start_idx > 0
    /\ LastEvent.end_idx = frame_cg
    /\ bstate.tag = "Idle"
    /\ voiced_score = 0

\* C21 (as stated): with frames arriving in real time, no boundary event is
\* longer than max_turn_ms, i.e. max_turn_ms * 16 samples.
C21_HardCap ==
    \A i \in 1..Len(boundary_events) :
        boundary_events[i].end_idx - boundary_events[i].start_idx <= MaxTurnMs * 16

\* the FSM as it stands, and the proposals a worker may have sent by the next
\* frame, whose current_global is NextGlobal
CurrentFsm ==
    [state |-> bstate, score |-> voiced_score, next_seg_id |-> next_seg_id,
     events |-> boundary_events]
NextGlobal == frame_cg + FrameSamples
AnyProposal ==
    {[clause_end_idx |-> Max(0, frame_cg + offset), text |-> text] :
        offset \in ProposalOffsets, text \in ProposalTexts \cup {T_Comma, <<>>}}

\* C22: handle_asr_proposal closes only in Recording, for a proposal with
\* seg_start_idx < clause_end_idx < current_global and a valid clause: it sends
\* AsrClose(seg_start_idx, clause_end_idx, text), advances the segment id by one
\* and goes to Committing with seg_start_idx = clause_end_idx. Every other
\* proposal, in every state, changes nothing and sends nothing.
C22_AsrProposalEffect ==
    \A p \in AnyProposal :
        LET after == HandleAsrProposal(CurrentFsm, p, NextGlobal)
            closes == /\ bstate.tag = "Recording"
                      /\ bstate.seg_start_idx < p.clause_end_idx
                      /\ p.clause_end_idx < NextGlobal
                      /\ IsValidClause(p.text)
        IN  IF closes
            THEN /\ after.events =
                        Append(boundary_events,
                               [kind |-> "AsrClose",
                                start_idx |-> bstate.seg_start_idx,
                                end_idx |-> p.clause_end_idx,
                                text |-> p.text])
                 /\ after.next_seg_id = next_seg_id + 1
                 /\ after.state.tag = "Committing"
                 /\ after.state.seg_start_idx = p.clause_end_idx
                 /\ after.score = voiced_score
            ELSE after = CurrentFsm

\* C22 witness: a frame on which a queued proposal closed the first segment and
\* the FSM is left in Committing at the clause end
C22_Witness ==
    /\ sent_in_frame = 1
    /\ boundary_events = <<AsrClose(LastEvent.start_idx, bstate.seg_start_idx, T_Sentence)>>
    /\ bstate.tag = "Committing"
    /\ next_seg_id = 2
    /\ LastEvent.start_idx < LastEvent.end_idx
    /\ LastEvent.end_idx < frame_cg

\* C23 (as stated): the frame whose processing sent an AsrClose leaves the FSM
\* in Committing; Recording is re-entered only on a later frame.
C23_CommittingAfterAsrClose ==
    (sent_in_frame = 1 /\ LastEvent.kind = "AsrClose") => bstate.tag = "Committing"

\* C24 (as stated): no proposal computed from a request submitted for an earlier
\* segment closes a later segment.
C24_NoStaleClose == ~stale_close

\* the strict clause rule: a terminator at the end, or enough tokens
StrictClause(text) ==
    LET t == Trim(text) IN
    /\ t # <<>>
    /\ \/ t[Len(t)] \in {".", "?", "!", ";"}
       \/ TokenCount(t) >= MinClauseTokens

\* C25 (as stated): the boundary FSM closes a segment only on proposal text
\* that is a clause by the strict rule.
C25_StrictRule ==
    \A i \in 1..Len(boundary_events) :
        boundary_events[i].kind = "AsrClose" => StrictClause(boundary_events[i].text)

\* what the clause test of the workers is said to return
SaidOfSimple(text) ==
    \/ StrictClause(text)
    \/ EndsWithStr(Trim(text), <<",">>)
    \/ EndsWithStr(Trim(text), <<" ", "a", "n", "d">>)

\* C26 (as stated): a worker whose text ends inside the request's range sends a
\* proposal exactly when the text ends in a sentence terminator, has at least
\* min_tokens tokens, or is short and ends with a comma or with " and"; it
\* sends none for other short text.
C26_SimpleRule ==
    [][\A offset \in ClauseOffsets, text \in ClauseTexts :
          (/\ asr_requests # <<>>
           /\ Head(asr_requests).global_range.start + offset
                  < Head(asr_requests).global_range.end
           /\ WorkerPropose(offset, text))
          => (Len(asr_proposals') > Len(asr_proposals)) = SaidOfSimple(text)]_vars

\* ---------------------------------------------------------- emitter: holding

\* a call that runs try_emit_ready_segments
DrainStep ==
    \/ /\ recv_log' # recv_log
       /\ \E kind \in EventKinds, seg_id \in SegIds :
              ProcessBoundaryEvent(kind, 1, seg_id)
    \/ /\ recv_log' = recv_log
       /\ global_idx' = global_idx
       /\ \E seg_id \in SegIds :
              /\ seg_id \in DOMAIN pending_commits
              /\ ~pending_commits[seg_id].text.some
              /\ \/ seg_id \notin DOMAIN pending_commits'
                 \/ pending_commits'[seg_id].text.some
              /\ AddTranscript(seg_id, T_Short)
    \/ /\ recv_log' = recv_log
       /\ global_idx' = global_idx
       /\ (emit_log' # emit_log \/ output_queue' # output_queue)
       /\ PopSegment

HeadPending == next_emit_id \in DOMAIN pending_commits
HeadCommit == pending_commits[next_emit_id]

\* a commit that the claim says is held back
Held(commit) ==
    /\ commit.reason \in {"Silence", "MaxLength"}
    /\ ~commit.text.some
    /\ commit.age < asr_timeout_ms

\* the step is add_transcript for the head commit
TranscriptAddedToHead ==
    /\ HeadPending
    /\ ~HeadCommit.text.some
    /\ AddTranscript(next_emit_id, T_Short)

\* the step is process_boundary_event with the head commit's id
HeadReplaced == recv_log' # recv_log /\ recv_log'[Len(recv_log')] = next_emit_id

\* C27: a drain leaves a commit at the head only if that commit has reason
\* Silence or MaxLength, no text and an age below asr_timeout_ms, so an AsrClause
\* head, a head with a transcript and a timed-out head all leave on the drain,
\* and with asr_timeout_ms = 0 no head is left; a head that is held and gets no
\* transcript in the call stays as it is, any other head leaves in the call, is
\* logged as the next id and reaches the output queue with its reason and with
\* its text, which is the added transcript or none after a timeout.
C27_HeldOnlyWhileWaiting ==
    [][DrainStep =>
         /\ next_emit_id' \in DOMAIN pending_commits'
                => Held(pending_commits'[next_emit_id'])
         /\ asr_timeout_ms = 0 => next_emit_id' \notin DOMAIN pending_commits'
         /\ (HeadPending /\ ~HeadReplaced) =>
              IF Held(HeadCommit) /\ ~TranscriptAddedToHead
              THEN /\ next_emit_id' = next_emit_id
                   /\ next_emit_id \in DOMAIN pending_commits'
                   /\ pending_commits'[next_emit_id] = HeadCommit
              ELSE /\ next_emit_id' > next_emit_id
                   /\ emit_log'[Len(emit_log) + 1].id = next_emit_id
                   /\ \A i \in 1..Len(output_queue') :
                        output_queue'[i].id = next_emit_id =>
                          /\ output_queue'[i].close_reason = HeadCommit.reason
                          /\ output_queue'[i].text =
                               IF TranscriptAddedToHead THEN Some(T_Short)
                               ELSE HeadCommit.text]_vars

\* C27 witness: with a timeout above 0, the first commit was held, timed out
\* and was emitted without text on a later drain, where it is in the output
\* queue; the next commit is held at the head.
C27_Witness ==
    /\ asr_timeout_ms > 0
    /\ Len(output_queue) = 1
    /\ output_queue[1].id = 1
    /\ output_queue[1].close_reason = "Silence"
    /\ ~output_queue[1].text.some
    /\ next_emit_id = 2
    /\ HeadPending
    /\ Held(HeadCommit)

\* ------------------------------------------------------- segmenter: claims

\* C28: a push_chunk call with a chunk of any length other than FrameSamples
\* returns None and leaves the ring (its global index and the chunks it holds),
\* the boundary FSM's state and score, the segment ids, the emitter and the
\* outgoing channel as they were; classify_frame gives Err for such a chunk and
\* sends no FrameMeta.
C28_WrongSizeNoOp ==
    [][\A len \in ChunkLens, voiced \in BOOLEAN, polls \in BOOLEAN :
          (len # FrameSamples /\ PushChunk(len, voiced, polls)) =>
              /\ last_chunk' = Some([len |-> len, returned |-> None])
              /\ UNCHANGED <<frame_cg, segmenter, bstate, voiced_score,
                             next_seg_id, boundary_events, outgoing,
                             pending_commits, next_emit_id, output_queue>>
              /\ ~ClassifyFrame(Chunk(len, voiced), frame_cg).ok
              /\ ClassifyFrame(Chunk(len, voiced), frame_cg).frames = <<>>]_vars

\* C28 witness: a chunk one sample short was just rejected while a segment is
\* being recorded, audio has gone out and a chunk of the right size was taken
\* before it.
C28_Witness ==
    /\ last_chunk = Some([len |-> FrameSamples - 1, returned |-> None])
    /\ bstate.tag = "Recording"
    /\ outgoing # <<>>
    /\ Len(segmenter.ring_chunks) = frames_fed
    /\ frames_fed > 0

\* C29: the requests waiting for a worker never exceed a fixed capacity, for
\* any capacity from 1 to MaxRequests: a submit that finds that many requests
\* waiting is refused and its request discarded.
C29_BoundedRequests == Len(asr_requests) <= MaxRequests

\* ------------------------------------------------ turn: speech during a wait

\* what the claim says goes out on SpeechStart in WaitingForForcedFrame
AbortMessages(f) ==
    (IF f.last_frame_data.some THEN <<VideoMsg(f.last_frame_data.val)>> ELSE <<>>)
    \o (IF f.need_activity_reset THEN <<SetupMsg("NO_INTERRUPTION")>> ELSE <<>>)
    \o <<ActivityEndMsg, ActivityStartMsg>>

\* C30: SpeechStart in WaitingForForcedFrame puts on the wire the cached frame
\* as a video message if there is one, then the setup message restoring
\* NO_INTERRUPTION if one is owed, then activityEnd, then activityStart, and
\* nothing else; the FSM is in AudioTurn afterwards and both pending queues
\* have grown by exactly one entry, an audio turn, at their end.
C30_SpeechDuringWait ==
    [][(/\ fsm.state = "WaitingForForcedFrame"
        /\ RunnerEventCapped(SpeechStartEv, MaxWireAbort))
       => /\ wire' = wire \o AbortMessages(fsm)
          /\ fsm'.state = "AudioTurn"
          /\ ~fsm'.need_activity_reset
          /\ fsm'.pending_turn_types = Append(fsm.pending_turn_types, FALSE)
          /\ fsm'.turn_end_times = Append(fsm.turn_end_times, FALSE)]_vars

\* C30 witness: speech started during the wait of an audio turn that had
\* interrupted a video turn; the last four messages are the cached frame, the
\* restoring setup, activityEnd and activityStart.
C30_Witness ==
    /\ fsm.state = "AudioTurn"
    /\ fsm.last_frame_data.some
    /\ Len(wire) >= 4
    /\ SubSeq(wire, Len(wire) - 3, Len(wire)) =
         <<VideoMsg(fsm.last_frame_data.val), SetupMsg("NO_INTERRUPTION"),
           ActivityEndMsg, ActivityStartMsg>>
    /\ fsm.pending_turn_types # <<>>
    /\ ~fsm.pending_turn_types[Len(fsm.pending_turn_types)]

\* ------------------------------------------------ turn FSM: ignored events

\* the (state, event) pairs the claim lists as outside the transition table
OutsideTable(state, ev) ==
    \/ ev.type = "AudioChunk" /\ state \in {"Idle", "FrameBatch", "WaitingForForcedFrame"}
    \/ ev.type = "SpeechEnd" /\ state \in {"Idle", "FrameBatch", "WaitingForForcedFrame"}
    \/ ev.type = "SpeechStart" /\ state = "AudioTurn"

\* C31: an on_event call with AudioChunk or SpeechEnd in Idle, FrameBatch or
\* WaitingForForcedFrame, or with SpeechStart in AudioTurn, puts nothing on the
\* wire and leaves every field of the FSM as it was: the state, the frame
\* batch, last_frame_hash, the two pending-turn queues, need_activity_reset and
\* the count of ForceCaptureRequests sent.
C31_OutsideTableNoOp ==
    [][\A ev \in FsmEvents :
          (OutsideTable(fsm.state, ev) /\ FsmOnEvent(ev)) =>
              /\ wire' = wire
              /\ fsm' = fsm]_vars

\* C31 witness: SpeechEnd was just handed to an FSM that is in FrameBatch with
\* a frame in its batch and a video turn pending.
C31_Witness ==
    /\ last_event = Some(SpeechEndEv)
    /\ fsm.state = "FrameBatch"
    /\ fsm.frame_batch # <<>>
    /\ fsm.pending_turn_types # <<>>

\* the activityEnd messages among those a step adds to the wire
EndsAdded ==
    Cardinality({i \in (Len(wire) + 1)..Len(wire') : HasKey(wire'[i], "activityEnd")})

\* queue grew from before to after by exactly n entries at its end
GrewBy(before, after, n) ==
    /\ Len(after) = Len(before) + n
    /\ SubSeq(after, 1, Len(before)) = before

\* C32: turn_end_times and pending_turn_types always have the same length; an
\* on_event call with ResponseReceived, in any state, removes the oldest entry
\* of both if there is one and nothing otherwise, puts nothing on the wire and
\* changes nothing else in the FSM; every other call appends to each queue
\* exactly one entry per activityEnd it puts on the wire and removes none.
C32_PendingFifo ==
    /\ [](Len(fsm.turn_end_times) = Len(fsm.pending_turn_types))
    /\ [][IF FsmOnEvent(ResponseReceivedEv)
          THEN /\ wire' = wire
               /\ fsm' = [fsm EXCEPT
                            !.turn_end_times = IF @ = <<>> THEN @ ELSE Tail(@),
                            !.pending_turn_types = IF @ = <<>> THEN @ ELSE Tail(@)]
          ELSE /\ GrewBy(fsm.turn_end_times, fsm'.turn_end_times, EndsAdded)
               /\ GrewBy(fsm.pending_turn_types, fsm'.pending_turn_types, EndsAdded)]_vars

\* C32 witness: two turns were ended on the wire and ResponseReceived has just
\* removed the older of the two pending entries, in AudioTurn.
C32_Witness ==
    /\ last_event = Some(ResponseReceivedEv)
    /\ fsm.state = "AudioTurn"
    /\ Cardinality({i \in 1..Len(wire) : HasKey(wire[i], "activityEnd")}) = 2
    /\ fsm.pending_turn_types = <<FALSE>>
    /\ fsm.turn_end_times = <<FALSE>>

\* ------------------------------------------------------ runner: shutdown

\* every sender of the runner's three input channels that can be dropped is gone
InputsClosed ==
    ~runner.media_senders /\ ~runner.outgoing_open /\ ~runner.ws_in_open

\* C33: once every input channel of run() is closed, run() eventually returns.
C33_ShutdownOnClose == InputsClosed ~> runner.returned

\* C34 (as stated): with recording enabled, on_ws opens a "turn_v" directory at
\* the wire activityStart of every video-only turn and of no other turn and
\* closes it at that turn's activityEnd; every frame of a video-only turn is
\* written into the "turn_v" directory opened for that turn, and no frame of an
\* audio turn is written into a "turn_v" directory.
C34_VideoTurnDirs ==
    rec.enabled =>
        /\ \A s \in rec_hist.starts : s.opened <=> s.kind = "video"
        /\ \A e \in rec_hist.ends : e.closed
        /\ \A v \in rec_hist.vfiled :
               /\ v.kind = "video" => v.prefix = "turn_v" /\ v.own
               /\ v.kind = "audio" => v.prefix # "turn_v"

\* ---- send_turn_to_gemini, one websocket frame at a time
MaxTurnsSent == 3
TurnSamples ==
    {0, 1, 127999, 128000, 128001, 628000, 628001, 1128000, 1128001, 1628001}

\* the turn-processing task (or the response handler) calls send_turn_to_gemini
SendTurnBegin(id, samples) ==
    /\ gemini.turn = None \/ gemini.result # "none"
    /\ gemini' = [turn |-> Some([id |-> id, samples |-> samples]),
                  plan |-> SendTurnToGemini(samples),
                  sent |-> <<>>, result |-> "none"]

\* self.send(&msg).await? returns Ok: the next frame is on the socket; after the
\* last one send_turn_to_gemini returns Ok(())
SendFrame ==
    /\ gemini.result = "none"
    /\ gemini.plan # <<>>
    /\ gemini' = [gemini EXCEPT !.plan = Tail(@),
                                !.sent = Append(@, Head(gemini.plan)),
                                !.result = IF Len(gemini.plan) = 1 THEN "ok"
                                           ELSE "none"]

\* self.send(&msg).await? returns Err: send_turn_to_gemini returns it at once
SendFrameFails ==
    /\ gemini.result = "none"
    /\ gemini.plan # <<>>
    /\ gemini' = [gemini EXCEPT !.result = "err"]

NextGemini ==
    /\ \/ \E id \in 1..MaxTurnsSent, samples \in TurnSamples :
              SendTurnBegin(id, samples)
       \/ SendFrame
       \/ SendFrameFails
    /\ UNCHANGED <<ringVars, boundaryVars, emitterVars, fsm, wire, wait_elapsed,
                   tick_in, turn_log, frames_per_turn, sinkVars, recVars,
                   dup_frame, last_event, runner, tasks, frame_counter, broker>>

SpecGemini == InitTurn /\ [][NextGemini]_vars

\* the audio frames of a sequence of frames, in order
AudioFrames(msgs) == SelectSeq(msgs, LAMBDA m : JsonGet(m, "audio"))

\* C35 (as stated): when send_turn_to_gemini has returned Ok for a turn, the
\* frames sent are one activityStart first, then the turn's bytes in order and
\* without loss (first chunk at most FIRST_MAX bytes, later chunks at most
\* MAX_WEBSOCKET), then one activityEnd last, and no audioStreamEnd.
C35_TurnBracketed ==
    gemini.result = "ok" =>
        LET sent == gemini.sent
            len == I16SliceToU8Len(gemini.turn.val.samples)
            audio == AudioFrames(sent)
        IN  /\ Len(sent) = Len(audio) + 2
            /\ sent[1] = RtActivityStart
            /\ sent[Len(sent)] = [activityEnd |-> <<>>]
            /\ \A i \in 1..Len(sent) : ~JsonGet(sent[i], "audioStreamEnd")
            /\ \A i \in 1..Len(audio) :
                   /\ sent[i + 1] = audio[i]
                   /\ audio[i].audio.from = (IF i = 1 THEN 0
                                             ELSE audio[i - 1].audio.to)
                   /\ audio[i].audio.to - audio[i].audio.from
                          <= (IF i = 1 THEN FIRST_MAX ELSE MAX_WEBSOCKET)
            /\ (IF audio = <<>> THEN 0 ELSE audio[Len(audio)].audio.to) = len

\* ---- the segmenter fed chunk by chunk in real time with the ASR workers
\*      answering the requests of poll_asr
NextReopen ==
    /\ \/ \E len \in ChunkLens, voiced \in BOOLEAN, polls \in BOOLEAN :
              PushChunk(len, voiced, polls)
       \/ /\ \E offset \in ClauseOffsets : WorkerPropose(offset, T_Sentence)
          /\ UNCHANGED <<segVars, emitterVars>>
    /\ UNCHANGED <<ringVars, turnVars>>

\* the segmenter after SilentChunks silent chunks: the FSM is Idle with score 0,
\* nothing has been sent on the outgoing channel
SilentChunks == 30

InitReopen ==
    /\ RingInit /\ EmitterInit /\ TurnInit
    /\ frame_cg = SilentChunks * FrameSamples
    /\ bstate = Idle
    /\ voiced_score = 0
    /\ next_seg_id = 1
    /\ boundary_events = <<>>
    /\ asr_proposals = <<>>
    /\ frames_fed = 0
    /\ sent_in_frame = 0
    /\ asr_requests = <<>>
    /\ last_asr_submit_idx = None
    /\ proposal_segs = <<>>
    /\ stale_close = FALSE
    /\ SegmenterParked
    /\ \E has_outgoing \in BOOLEAN :
           segmenter = [SegmenterNew(has_outgoing) EXCEPT
                           !.prev_fsm_state = Some(Idle),
                           !.ring_chunks = [i \in 1..SilentChunks |->
                                               Chunk(FrameSamples, FALSE)]]

SpecReopen == InitReopen /\ [][NextReopen]_vars

OutCount(type) == Len(SelectSeq(outgoing, LAMBDA o : o.type = type))

\* the speech turns of an outgoing sequence: ActivityStart(t), AudioChunk(_, t)
\* any number of times, ActivityEnd(t), one turn after the other with growing t;
\* open is the id of the turn not yet ended, last the id of the last turn begun
RECURSIVE OutgoingTurns(_, _, _)
OutgoingTurns(out, open, last) ==
    IF out = <<>> THEN TRUE
    ELSE LET o == Head(out) IN
         CASE o.type = "ActivityStart" ->
                  /\ ~open.some
                  /\ last.some => o.turn_id > last.val
                  /\ OutgoingTurns(Tail(out), Some(o.turn_id), Some(o.turn_id))
           [] o.type = "AudioChunk" ->
                  /\ open = Some(o.turn_id)
                  /\ OutgoingTurns(Tail(out), open, last)
           [] OTHER ->
                  /\ open = Some(o.turn_id)
                  /\ OutgoingTurns(Tail(out), None, last)

\* C36 (as stated): with an outgoing sender, the speech turns on the outgoing
\* channel are the segments of the boundary FSM: one ActivityEnd per boundary
\* event, one ActivityStart per segment closed or open, each turn bracketed
\* under its own growing id, and a turn open (so that its chunks are sent)
\* whenever a segment is being recorded.
C36_TurnPerSegment ==
    segmenter.outgoing_tx =>
        /\ OutCount("ActivityEnd") = Len(boundary_events)
        /\ OutCount("ActivityStart")
               = Len(boundary_events) + (IF bstate.tag = "Recording" THEN 1 ELSE 0)
        /\ OutgoingTurns(outgoing, None, None)
        /\ bstate.tag = "Recording" => segmenter.current_turn_id.some

\* ---- the response handler and the turn-processing task of async_main
MaxTurnsMain == 3
MaxCompletions == 2

\* everything of the model but tasks
NotTasks ==
    <<ringVars, boundaryVars, emitterVars, fsm, wire, wait_elapsed, tick_in,
      turn_log, frames_per_turn, sinkVars, recVars, dup_frame, last_event, runner,
      gemini, frame_counter, broker>>

\* one step of the response handler, between two awaits (main.rs:224-307)
HandlerStep ==
    CASE tasks.h_pc = "recv" ->
            \* response_rx.recv() yields ApiResponse::GenerationComplete
            /\ tasks.completions < MaxCompletions
            /\ tasks' = [tasks EXCEPT !.completions = @ + 1,
                                      !.h_pc = "lock_awaiting"]
      [] tasks.h_pc = "lock_awaiting" ->
            \* line 261; the guard lives to the end of the match arm
            /\ tasks.awaiting_lock = "free"
            /\ tasks' = [tasks EXCEPT !.awaiting_lock = "response",
                                      !.awaiting = FALSE,
                                      !.h_pc = "lock_backlog"]
      [] tasks.h_pc = "lock_backlog" ->
            \* line 268, the swap, pop_front; this guard too lives to the end of
            \* the arm. With an empty backlog the arm ends here.
            /\ tasks.backlog_lock = "free"
            /\ tasks' = IF tasks.backlog = <<>>
                        THEN [tasks EXCEPT !.awaiting_lock = "free",
                                           !.h_pc = "recv"]
                        ELSE [tasks EXCEPT !.backlog_lock = "response",
                                           !.backlog = <<>>,
                                           !.h_turn = Some(Head(tasks.backlog)),
                                           !.turns_to_process = Tail(tasks.backlog),
                                           !.h_pc = "lock_gemini"]
      [] tasks.h_pc = "lock_gemini" ->
            \* line 278
            /\ tasks.gemini_lock = "free"
            /\ tasks' = [tasks EXCEPT !.gemini_lock = "response",
                                      !.h_pc = "lock_awaiting_again"]
      [] tasks.h_pc = "lock_awaiting_again" ->
            \* line 281
            /\ tasks.awaiting_lock = "free"
            /\ tasks' = [tasks EXCEPT !.awaiting_lock = "response",
                                      !.awaiting = TRUE,
                                      !.h_pc = "send"]
      [] tasks.h_pc = "send" ->
            \* line 285
            \E ok \in BOOLEAN :
                tasks' = [tasks EXCEPT
                             !.sent = Append(@, [turn |-> tasks.h_turn.val,
                                                 by |-> "response", ok |-> ok]),
                             !.h_pc = IF ok THEN "put_back" ELSE "lock_awaiting_reset"]
      [] tasks.h_pc = "lock_awaiting_reset" ->
            \* line 290
            /\ tasks.awaiting_lock = "free"
            /\ tasks' = [tasks EXCEPT !.awaiting = FALSE, !.h_pc = "put_back"]
      [] tasks.h_pc = "put_back" ->
            \* drop(gemini_guard), lines 298-305, and the end of the arm
            /\ tasks.turns_to_process # <<>> => tasks.backlog_lock = "free"
            /\ tasks' = [tasks EXCEPT
                             !.backlog = tasks.turns_to_process \o @,
                             !.turns_to_process = <<>>,
                             !.h_turn = None,
                             !.gemini_lock = "free",
                             !.awaiting_lock = "free",
                             !.backlog_lock = "free",
                             !.h_pc = "recv"]

\* one step of the turn-processing task (main.rs:455-498)
TurnTaskStep ==
    CASE tasks.t_pc = "recv" ->
            \* turn_rx.recv() yields the next turn
            /\ tasks.next_turn <= MaxTurnsMain
            /\ tasks' = [tasks EXCEPT !.t_turn = Some(tasks.next_turn),
                                      !.next_turn = @ + 1,
                                      !.t_pc = "is_awaiting"]
      [] tasks.t_pc = "is_awaiting" ->
            \* lines 460-463: lock, read, the guard is dropped with the block
            /\ tasks.awaiting_lock = "free"
            /\ tasks' = [tasks EXCEPT !.t_pc = IF tasks.awaiting THEN "push_back"
                                               ELSE "lock_gemini"]
      [] tasks.t_pc = "push_back" ->
            \* lines 468-475
            /\ tasks.backlog_lock = "free"
            /\ LET pushed_back == Append(tasks.backlog, tasks.t_turn.val)
               IN  tasks' = [tasks EXCEPT
                                !.backlog = IF Len(pushed_back) > BacklogCap
                                            THEN Tail(pushed_back)
                                            ELSE pushed_back,
                                !.t_turn = None,
                                !.t_pc = "recv"]
      [] tasks.t_pc = "lock_gemini" ->
            \* line 478
            /\ tasks.gemini_lock = "free"
            /\ tasks' = [tasks EXCEPT !.gemini_lock = "turns",
                                      !.t_pc = "set_awaiting"]
      [] tasks.t_pc = "set_awaiting" ->
            \* lines 481-484
            /\ tasks.awaiting_lock = "free"
            /\ tasks' = [tasks EXCEPT !.awaiting = TRUE, !.t_pc = "send"]
      [] tasks.t_pc = "send" ->
            \* line 487
            \E ok \in BOOLEAN :
                tasks' = [tasks EXCEPT
                             !.sent = Append(@, [turn |-> tasks.t_turn.val,
                                                 by |-> "turns", ok |-> ok]),
                             !.t_pc = IF ok THEN "drop_gemini" ELSE "reset_awaiting"]
      [] tasks.t_pc = "reset_awaiting" ->
            \* lines 490-492
            /\ tasks.awaiting_lock = "free"
            /\ tasks' = [tasks EXCEPT !.awaiting = FALSE, !.t_pc = "drop_gemini"]
      [] tasks.t_pc = "drop_gemini" ->
            \* line 495
            tasks' = [tasks EXCEPT !.gemini_lock = "free",
                                   !.t_turn = None,
                                   !.t_pc = "recv"]

ResponseHandler == HandlerStep /\ UNCHANGED NotTasks
TurnProcessing == TurnTaskStep /\ UNCHANGED NotTasks

NextTasks == ResponseHandler \/ TurnProcessing

\* the tokio runtime polls every task that can make progress
SpecTasks ==
    InitTurn /\ [][NextTasks]_vars /\ WF_vars(ResponseHandler) /\ WF_vars(TurnProcessing)

\* C37 (as stated): the response handler always finishes handling a
\* GenerationComplete: once it has begun it comes back to response_rx.recv().
C37_GenerationCompleteFinishes ==
    (tasks.h_pc # "recv") ~> (tasks.h_pc = "recv")

\* ---- the video capturer of media_in/video.rs feeding the turn runner
MaxCaptured == 3

\* capture_and_send_frame publishes VideoFrame{jpeg, frame_id} with the value
\* fetch_add returns, and the runner hands it to the FSM with hash = frame_id
CaptureAndSendFrame(jpeg) ==
    /\ frame_counter < MaxCaptured
    /\ frame_counter' = frame_counter + 1
    /\ RunnerEventCapped(FrameEv(jpeg, frame_counter), MaxWireSpeech)

NextCapture ==
    /\ \/ \E jpeg \in TwoJpegs : CaptureAndSendFrame(jpeg)
       \/ /\ \/ RunnerEventCapped(SpeechStartEv, MaxWireSpeech)
             \/ \E bytes \in Pcms : RunnerEventCapped(AudioChunkEv(bytes), MaxWireSpeech)
             \/ RunnerEventCapped(SpeechEndEv, MaxWireSpeech)
             \/ RunnerEventCapped(ResponseReceivedEv, MaxWireSpeech)
             \/ TimeoutTick
             \/ SleepThroughWait
          /\ UNCHANGED frame_counter
    /\ UNCHANGED <<ringVars, boundaryVars, emitterVars, dup_frame, last_event,
                   runner, gemini, tasks, broker>>

SpecCapture == InitTurn /\ [][NextCapture]_vars

\* the frame of a step was batched or sent as a video message
FrameTaken ==
    \/ Len(fsm'.frame_batch) > Len(fsm.frame_batch)
    \/ \E i \in Len(wire) + 1 .. Len(wire') : JsonGet(wire'[i], "video")

\* C38 (as stated): the first VideoFrame the capturer publishes (frame_id 0) is
\* taken by the FSM as a new frame: it is put into the batch or sent.
C38_FirstFrameTaken ==
    [][(frame_counter = 0 /\ frame_counter' = 1) => FrameTaken]_vars

\* ---- Broker: handle, handle_speech_turn
MaxBrokerTurns == 2

\* start_new_tracked_turn
StartNewTrackedTurn(b) ==
    [b EXCEPT !.next_turn_id = @ + 1,
              !.pending_turns = Append(@, b.next_turn_id)]

\* complete_tracked_turn
CompleteTrackedTurn(b) ==
    IF b.pending_turns = <<>> THEN b
    ELSE [b EXCEPT !.pending_turns = Tail(@)]

FrameMsgs(frames) == [i \in 1..Len(frames) |-> VideoMsg(frames[i].jpeg)]

\* start_video_turn, as [b, out]
StartVideoTurn(b) ==
    LET b1 == [StartNewTrackedTurn(b) EXCEPT !.state = "CollectingVideoOnly"]
        frames_to_send == Min(Len(b.recent_frames) - b.frames_sent_in_turn,
                              MAX_FRAMES_PER_TURN)
        start_idx == SatSub(Len(b.recent_frames), frames_to_send)
        frames_slice == SubSeq(b.recent_frames, start_idx + 1, Len(b.recent_frames))
    IN  [b |-> [b1 EXCEPT !.frames_sent_in_turn = Len(b.recent_frames)],
         out |-> <<ActivityStartMsg>> \o FrameMsgs(frames_slice)
                 \o <<ActivityEndMsg>>]

\* handle_input(InEvent::UniqueFrame), as [b, out]
HandleUniqueFrame(b, jpeg) ==
    LET pushed_frame == Append(b.recent_frames, [jpeg |-> jpeg, age |-> 0])
        b1 == [b EXCEPT !.recent_frames =
                            IF Len(pushed_frame) > RecentFramesCap
                            THEN Tail(pushed_frame) ELSE pushed_frame]
        frames_since_turn == Len(b1.recent_frames) - b1.frames_sent_in_turn
    IN  IF /\ b1.state = "Idle"
           /\ frames_since_turn >= MIN_NEW_FRAMES
           /\ b1.since_audio > VIDEO_GRACE_MS
        THEN StartVideoTurn(b1)
        ELSE [b |-> b1, out |-> <<>>]

\* handle_ws, as [b, out]
HandleWs(b, ws) ==
    IF ws = "GenerationComplete"
    THEN [b |-> [CompleteTrackedTurn(b) EXCEPT !.state = "Idle"], out |-> <<>>]
    ELSE [b |-> b, out |-> <<>>]

\* .filter(|f| f.timestamp > recent_frame_cutoff).take(MAX_FRAMES_PER_TURN)
RecentTake(frames) ==
    LET recent == SelectSeq(frames, LAMBDA f : f.age < FrameCutoffMs)
    IN  SubSeq(recent, 1, Min(Len(recent), MAX_FRAMES_PER_TURN))

\* handle_speech_turn(TurnInput::SpeechTurn), as [b, out]
HandleSpeechTurn(b, pcm) ==
    IF b.state # "Idle" THEN [b |-> b, out |-> <<>>]
    ELSE [b |-> [StartNewTrackedTurn(b) EXCEPT
                    !.since_audio = 0,
                    !.state = "CollectingSpeech",
                    !.frames_sent_in_turn = Len(b.recent_frames)],
          out |-> <<ActivityStartMsg, AudioMsg(pcm)>>
                  \o FrameMsgs(RecentTake(b.recent_frames))
                  \o <<ActivityEndMsg>>]

\* handle_streaming_audio, as [b, out]
HandleStreamingAudio(b, bytes, is_start, is_end) ==
    IF is_start /\ b.state # "Idle" THEN [b |-> b, out |-> <<>>]
    ELSE
    LET b1 == IF is_start
              THEN [StartNewTrackedTurn(b) EXCEPT !.state = "StreamingSpeech",
                                                  !.since_audio = 0]
              ELSE b
        m1 == IF is_start THEN <<ActivityStartMsg>> ELSE <<>>
    IN  IF bytes # <<>> /\ b1.state # "StreamingSpeech"
        THEN [b |-> b1, out |-> <<>>]
        ELSE
        LET m2 == IF bytes # <<>> THEN Append(m1, AudioMsg(bytes)) ELSE m1
        IN  IF is_end /\ b1.state # "StreamingSpeech"
            THEN [b |-> b1, out |-> <<>>]
            ELSE [b |-> b1,
                  out |-> IF is_end THEN Append(m2, ActivityEndMsg) ELSE m2]

\* what a sequence of returned messages does to the bracketing so far, as
\* [open, ok]
RECURSIVE Bracket(_, _)
Bracket(h, msgs) ==
    IF msgs = <<>> THEN h
    ELSE LET m == Head(msgs) IN
         Bracket(IF JsonGet(m, "activityStart")
                 THEN [open |-> TRUE, ok |-> h.ok /\ ~h.open]
                 ELSE IF JsonGet(m, "activityEnd")
                 THEN [open |-> FALSE, ok |-> h.ok /\ h.open]
                 ELSE [open |-> h.open, ok |-> h.ok /\ h.open],
                 Tail(msgs))

\* a call on the Broker that returned x.out and left the struct x.b
BrokerCall(call, x, turn_set) ==
    LET h == Bracket([open |-> broker.open, ok |-> broker.bracketed], x.out)
    IN  /\ x.b.next_turn_id <= MaxBrokerTurns
        /\ broker' = [x.b EXCEPT
                         !.returned = x.out,
                         !.last_call = call,
                         !.open = h.open,
                         !.bracketed = h.ok,
                         !.new_frames =
                             IF turn_set THEN 0
                             ELSE IF call = "UniqueFrame"
                             THEN Min(@ + 1, MIN_NEW_FRAMES)
                             ELSE @]

BrokerUniqueFrame(jpeg) ==
    LET x == HandleUniqueFrame(broker, jpeg)
    IN  BrokerCall("UniqueFrame", x, x.out # <<>>)

BrokerAudioChunk == BrokerCall("AudioChunk", [b |-> broker, out |-> <<>>], FALSE)

BrokerWs(ws) == BrokerCall(ws, HandleWs(broker, ws), FALSE)

BrokerSpeechTurn(pcm) ==
    LET x == HandleSpeechTurn(broker, pcm)
    IN  BrokerCall("SpeechTurn", x, x.out # <<>>)

BrokerStreamingAudio(bytes, is_start, is_end) ==
    BrokerCall("StreamingAudio",
               HandleStreamingAudio(broker, bytes, is_start, is_end), FALSE)

\* BrokerTimeStep milliseconds pass between two calls
BrokerTime ==
    /\ \/ broker.since_audio <= VIDEO_GRACE_MS
       \/ \E i \in 1..Len(broker.recent_frames) :
              broker.recent_frames[i].age < FrameCutoffMs
    /\ broker' = [broker EXCEPT
                     !.since_audio = Min(@ + BrokerTimeStep,
                                         VIDEO_GRACE_MS + BrokerTimeStep),
                     !.recent_frames =
                         [i \in 1..Len(@) |->
                             [@[i] EXCEPT !.age = Min(@ + BrokerTimeStep,
                                                      FrameCutoffMs)]],
                     !.last_call = "time"]

NextBroker ==
    /\ \/ \E jpeg \in Jpegs : BrokerUniqueFrame(jpeg)
       \/ BrokerAudioChunk
       \/ \E ws \in {"GenerationComplete", "Text"} : BrokerWs(ws)
       \/ \E pcm \in Pcms : BrokerSpeechTurn(pcm)
       \/ \E bytes \in Pcms \cup {<<>>}, is_start, is_end \in BOOLEAN :
              BrokerStreamingAudio(bytes, is_start, is_end)
       \/ BrokerTime
    /\ UNCHANGED <<ringVars, boundaryVars, emitterVars, fsm, wire, wait_elapsed,
                   tick_in, turn_log, frames_per_turn, sinkVars, recVars,
                   dup_frame, last_event, runner, gemini, tasks, frame_counter>>

SpecBroker == InitTurn /\ [][NextBroker]_vars

\* C39 (as stated): the messages the Broker has returned, taken together in
\* the order of the calls, are well bracketed: activityStart and activityEnd
\* alternate beginning with activityStart, and every audio and video message
\* lies between an activityStart and the next activityEnd.
C39_WellBracketed == broker.bracketed

\* C40 (as stated): a UniqueFrame that arrives while the Broker is Idle, more
\* than VIDEO_GRACE_MS after the last audio turn, and that is at least the
\* MIN_NEW_FRAMES-th frame since the last turn that sent frames, starts a
\* video-only turn.
C40_FrameStartsVideoTurn ==
    [][(/\ broker'.last_call = "UniqueFrame"
        /\ broker.state = "Idle"
        /\ broker.since_audio > VIDEO_GRACE_MS
        /\ broker.new_frames + 1 >= MIN_NEW_FRAMES)
          => /\ broker'.state = "CollectingVideoOnly"
             /\ broker'.returned # <<>>]_vars

=============================================================================
